---- MODULE Spec2Model ----
(***************************************************************************)
(* Model of the search query compiler of gdedit                            *)
(* (public/js/components/queryParser.js): tokenize, parseTokens,           *)
(* parseQuery, applyFilter and the evaluator matchInstance, the query      *)
(* history createQueryHistory and the search component advancedSearch.     *)
(*                                                                         *)
(* Strings are sequences of one-character strings and are indexed from 0   *)
(* as in the source (the character at index i is q[i + 1]).                *)
(***************************************************************************)
EXTENDS Integers, Sequences, FiniteSets, TLC

\* Number of lexemes concatenated to form a generated query string.
MaxPieces == 2
\* the longest generated query, in space-separated words
MaxWords == 3
\* the number of debounce timers the search component may arm
MaxTimers == 3
\* the number of result pages
MaxPage == 2

Min(a, b) == IF a < b THEN a ELSE b

(***************************************************************************)
(* Characters and strings                                                  *)
(***************************************************************************)
LowerLetters == <<"a","b","c","d","e","f","g","h","i","j","k","l","m",
                  "n","o","p","q","r","s","t","u","v","w","x","y","z">>
UpperLetters == <<"A","B","C","D","E","F","G","H","I","J","K","L","M",
                  "N","O","P","Q","R","S","T","U","V","W","X","Y","Z">>
DigitChars == <<"0","1","2","3","4","5","6","7","8","9">>

IndexOf(seq, c) ==
  IF \E k \in 1..Len(seq) : seq[k] = c
  THEN CHOOSE k \in 1..Len(seq) : seq[k] = c
  ELSE 0

UpperChar(c) == IF IndexOf(LowerLetters, c) > 0 THEN UpperLetters[IndexOf(LowerLetters, c)] ELSE c
LowerChar(c) == IF IndexOf(UpperLetters, c) > 0 THEN LowerLetters[IndexOf(UpperLetters, c)] ELSE c
\* a keyword comparison that is sensitive to letter case
caseSensitive(s) == s
toUpperCase(s) == [k \in 1..Len(s) |-> UpperChar(s[k])]
toLowerCase(s) == [k \in 1..Len(s) |-> LowerChar(s[k])]

IsDigit(c) == IndexOf(DigitChars, c) > 0
DigitVal(c) == IndexOf(DigitChars, c) - 1
\* /\s/ : the white space of the modelled alphabet
IsSpace(c) == c = " "

\* String.prototype.slice(a, b) with 0 <= a
Slice(q, a, b) == SubSeq(q, a + 1, Min(b, Len(q)))

\* String.prototype.includes
includes(hay, needle) ==
  \E k \in 0..(Len(hay) - Len(needle)) : SubSeq(hay, k + 1, k + Len(needle)) = needle

RECURSIVE TrimLeft(_)
TrimLeft(s) == IF s # <<>> /\ IsSpace(Head(s)) THEN TrimLeft(Tail(s)) ELSE s
RECURSIVE TrimRight(_)
TrimRight(s) ==
  IF s # <<>> /\ IsSpace(s[Len(s)]) THEN TrimRight(SubSeq(s, 1, Len(s) - 1)) ELSE s
\* String.prototype.trim
trim(s) == TrimRight(TrimLeft(s))

(***************************************************************************)
(* Values: a JavaScript string, number, boolean or null.  A number is      *)
(* m / 10^k with k minimal.                                                *)
(***************************************************************************)
StrV(s) == [t |-> "str", s |-> s, m |-> 0, k |-> 0, b |-> FALSE]
BoolV(b) == [t |-> "bool", s |-> <<>>, m |-> 0, k |-> 0, b |-> b]
Null == [t |-> "null", s |-> <<>>, m |-> 0, k |-> 0, b |-> FALSE]
Undefined == [t |-> "undefined", s |-> <<>>, m |-> 0, k |-> 0, b |-> FALSE]
NaN == [t |-> "nan", s |-> <<>>, m |-> 0, k |-> 0, b |-> FALSE]
RECURSIVE NumV(_, _)
NumV(m, k) ==
  IF k > 0 /\ m % 10 = 0 THEN NumV(m \div 10, k - 1)
  ELSE [t |-> "num", s |-> <<>>, m |-> m, k |-> k, b |-> FALSE]

RECURSIVE Pow10(_)
Pow10(k) == IF k = 0 THEN 1 ELSE 10 * Pow10(k - 1)

RECURSIVE NatToStr(_)
NatToStr(n) == IF n < 10 THEN <<DigitChars[n + 1]>>
               ELSE NatToStr(n \div 10) \o <<DigitChars[(n % 10) + 1]>>
RECURSIVE PadFrac(_, _)
PadFrac(s, k) == IF Len(s) < k THEN PadFrac(<<"0">> \o s, k) ELSE s

\* Number::toString for the decimals the lexer can produce within the bounds
NumToStr(m, k) ==
  LET a == IF m < 0 THEN -m ELSE m
      body == IF k = 0 THEN NatToStr(a)
              ELSE NatToStr(a \div Pow10(k)) \o <<".">> \o PadFrac(NatToStr(a % Pow10(k)), k)
  IN IF m < 0 THEN <<"-">> \o body ELSE body

\* String(v)
String(v) ==
  CASE v.t = "str" -> v.s
    [] v.t = "num" -> NumToStr(v.m, v.k)
    [] v.t = "bool" -> IF v.b THEN <<"t","r","u","e">> ELSE <<"f","a","l","s","e">>
    [] v.t = "null" -> <<"n","u","l","l">>
    [] v.t = "nan" -> <<"N","a","N">>
    [] OTHER -> <<"u","n","d","e","f","i","n","e","d">>

\* ToBoolean(v), as used by `!search` and `!query`
Truthy(v) ==
  CASE v.t = "str" -> v.s # <<>>
    [] v.t = "num" -> v.m # 0
    [] v.t = "bool" -> v.b
    [] OTHER -> FALSE

RECURSIVE DigitsVal(_)
DigitsVal(ds) == IF ds = <<>> THEN 0
                 ELSE 10 * DigitsVal(SubSeq(ds, 1, Len(ds) - 1)) + DigitVal(ds[Len(ds)])
RECURSIVE DigitRun(_)
\* the longest prefix of s made of digits
DigitRun(s) == IF s # <<>> /\ IsDigit(Head(s)) THEN <<Head(s)>> \o DigitRun(Tail(s)) ELSE <<>>

\* parseInt(s, 10) for s without leading white space
parseInt(s) ==
  LET neg == s # <<>> /\ Head(s) = "-"
      rest == IF neg THEN Tail(s) ELSE s
      ds == DigitRun(rest)
  IN IF ds = <<>> THEN NaN
     ELSE NumV((IF neg THEN -1 ELSE 1) * DigitsVal(ds), 0)

\* parseFloat(s) for s made of digits, '.' and '-'
parseFloat(s) ==
  LET neg == s # <<>> /\ Head(s) = "-"
      rest == IF neg THEN Tail(s) ELSE s
      ip == DigitRun(rest)
      after == SubSeq(rest, Len(ip) + 1, Len(rest))
      fp == IF after # <<>> /\ Head(after) = "." THEN DigitRun(Tail(after)) ELSE <<>>
  IN IF ip = <<>> /\ fp = <<>> THEN NaN
     ELSE NumV((IF neg THEN -1 ELSE 1) * DigitsVal(ip \o fp), Len(fp))

(***************************************************************************)
(* Lexer                                                                   *)
(***************************************************************************)
Tok(type, value) == [type |-> type, value |-> value]
EOFTok == Tok("EOF", Null)

\* the quoted-string loop: scans from i to the closing quote or the end
RECURSIVE QuotedScan(_, _, _, _)
QuotedScan(q, i, quote, str) ==
  IF i < Len(q) /\ q[i + 1] # quote
  THEN IF q[i + 1] = "\\" /\ i + 1 < Len(q)
       THEN QuotedScan(q, i + 2, quote, str \o <<q[i + 2]>>)
       ELSE QuotedScan(q, i + 1, quote, str \o <<q[i + 1]>>)
  ELSE [i |-> i, str |-> str]

\* the number loop: end of the run of /[\d.-]/ starting at i
RECURSIVE NumberRunEnd(_, _)
NumberRunEnd(q, i) ==
  IF i < Len(q) /\ (IsDigit(q[i + 1]) \/ q[i + 1] \in {".", "-"})
  THEN NumberRunEnd(q, i + 1) ELSE i

IsStop(c) == IsSpace(c) \/ c \in {":", ".", "[", "]", "(", ")", "\""}
\* the unquoted-string loop: end of the run of non-stop characters
RECURSIVE UnquotedRunEnd(_, _)
UnquotedRunEnd(q, i) ==
  IF i < Len(q) /\ ~IsStop(q[i + 1]) THEN UnquotedRunEnd(q, i + 1) ELSE i

Step(i, toks, rule) == [i |-> i, toks |-> toks, rule |-> rule]

UnquotedStep(q, i) ==
  LET e == UnquotedRunEnd(q, i)
      str == SubSeq(q, i + 1, e)
  IN Step(e, IF str # <<>> THEN <<Tok("STRING", StrV(str))>> ELSE <<>>, "unquoted")

\* a number branch that rewinds i and starts the iteration over
NumberStepRewinds(q, i) ==
  LET e == NumberRunEnd(q, i)
      num == SubSeq(q, i + 1, e)
      parsed == IF \E k \in 1..Len(num) : num[k] = "." THEN parseFloat(num) ELSE parseInt(num)
  IN IF parsed.t # "nan" THEN Step(e, <<Tok("NUMBER", parsed)>>, "number")
     ELSE Step(e - Len(num), <<>>, "number")

NumberStep(q, i) ==
  LET e == NumberRunEnd(q, i)
      num == SubSeq(q, i + 1, e)
      parsed == IF \E k \in 1..Len(num) : num[k] = "." THEN parseFloat(num) ELSE parseInt(num)
  IN IF parsed.t # "nan" THEN Step(e, <<Tok("NUMBER", parsed)>>, "number")
     ELSE UnquotedStep(q, i)

\* one iteration of the while loop of tokenize, from scan position i < len
LexStep(q, i) ==
  LET ch == q[i + 1] IN
  IF IsSpace(ch) THEN Step(i + 1, <<>>, "space")
  ELSE IF toUpperCase(Slice(q, i, i + 3)) = <<"A","N","D">> THEN Step(i + 3, <<Tok("AND", Null)>>, "keyword")
  ELSE IF toUpperCase(Slice(q, i, i + 2)) = <<"O","R">> THEN Step(i + 2, <<Tok("OR", Null)>>, "keyword")
  ELSE IF toUpperCase(Slice(q, i, i + 3)) = <<"N","O","T">> THEN Step(i + 3, <<Tok("NOT", Null)>>, "keyword")
  ELSE IF Slice(q, i, i + 3) = <<"-",">",":">> THEN Step(i + 3, <<Tok("RELATION_ARROW", Null)>>, "arrow")
  ELSE IF ch = ":" THEN Step(i + 1, <<Tok("COLON", Null)>>, "punct")
  ELSE IF ch = "." THEN Step(i + 1, <<Tok("DOT", Null)>>, "punct")
  ELSE IF ch = "(" THEN Step(i + 1, <<Tok("LPAREN", Null)>>, "punct")
  ELSE IF ch = ")" THEN Step(i + 1, <<Tok("RPAREN", Null)>>, "punct")
  ELSE IF ch = "[" THEN Step(i + 1, <<Tok("LBRACKET", Null)>>, "punct")
  ELSE IF ch = "]" THEN Step(i + 1, <<Tok("RBRACKET", Null)>>, "punct")
  ELSE IF ch = "-" /\ i + 1 < Len(q) /\ q[i + 2] = "[" THEN Step(i + 1, <<>>, "dash")
  ELSE IF ch \in {"\"", "'"} THEN
    LET r == QuotedScan(q, i + 1, ch, <<>>)
    IN Step(r.i + 1, <<Tok("STRING", StrV(r.str))>>, "quoted")
  ELSE IF toLowerCase(Slice(q, i, i + 4)) = <<"t","r","u","e">> THEN Step(i + 4, <<Tok("BOOL", BoolV(TRUE))>>, "bool")
  ELSE IF toLowerCase(Slice(q, i, i + 5)) = <<"f","a","l","s","e">> THEN Step(i + 5, <<Tok("BOOL", BoolV(FALSE))>>, "bool")
  ELSE IF ch = "-" \/ IsDigit(ch) THEN NumberStep(q, i)
  ELSE UnquotedStep(q, i)

tokenize(q) ==
  LET RECURSIVE Loop(_, _)
      Loop(i, tokens) ==
        IF i < Len(q)
        THEN LET st == LexStep(q, i) IN Loop(st.i, tokens \o st.toks)
        ELSE Append(tokens, EOFTok)
  IN Loop(0, <<>>)

(***************************************************************************)
(* AST nodes                                                               *)
(***************************************************************************)
Empty == [type |-> "empty"]
Bare(v) == [type |-> "bare", value |-> v]
ClassNode(c, p, v) == [type |-> "class", class |-> c, property |-> p, value |-> v]
IdClass(id, c, v) == [type |-> "idclass", id |-> id, class |-> c, value |-> v]
Relation(r, v) == [type |-> "relation", relation |-> r, value |-> v]
And(l, r) == [type |-> "and", left |-> l, right |-> r]
Or(l, r) == [type |-> "or", left |-> l, right |-> r]
Not(o) == [type |-> "not", operand |-> o]

NodeTypes == {"empty", "bare", "class", "idclass", "relation", "and", "or", "not"}

(***************************************************************************)
(* Parser.  Every parse function takes the cursor and returns the node     *)
(* built, the cursor after it and whether an Error was thrown.             *)
(***************************************************************************)
Res(node, pos) == [err |-> FALSE, node |-> node, pos |-> pos]
Throw(pos) == [err |-> TRUE, node |-> Empty, pos |-> pos]

\* tokens[pos] || { type: EOF }
current(tokens, pos) == IF pos < Len(tokens) THEN tokens[pos + 1] ELSE EOFTok
\* tokens[pos]?.type
typeAt(tokens, pos) == IF pos < Len(tokens) THEN tokens[pos + 1].type ELSE "undefined"

parseValue(tokens, pos) ==
  LET tok == current(tokens, pos) IN
  IF tok.type \in {"STRING", "NUMBER", "BOOL"}
  THEN [value |-> tok.value, pos |-> pos + 1]
  ELSE [value |-> Null, pos |-> pos]

\* the relation form, entered after '[' and ':' were consumed (cursor at pos)
parseRelation(tokens, pos) ==
  IF current(tokens, pos).type # "STRING" THEN Throw(pos)
  ELSE IF current(tokens, pos + 1).type # "RBRACKET" THEN Throw(pos + 1)
  ELSE IF current(tokens, pos + 2).type # "RELATION_ARROW" THEN Throw(pos + 2)
  ELSE LET v == parseValue(tokens, pos + 3)
       IN Res(Relation(current(tokens, pos).value.s, v.value), v.pos)

\* a class form that throws when no value follows the closing ':'
parseClassQueryNeedsValue(tokens, pos) ==
  IF current(tokens, pos).type # "STRING" THEN Throw(pos)
  ELSE
    LET className == current(tokens, pos).value.s
        hasDot == current(tokens, pos + 1).type = "DOT"
        p2 == IF hasDot THEN pos + 3 ELSE pos + 1
    IN IF hasDot /\ current(tokens, pos + 2).type # "STRING" THEN Throw(pos + 2)
       ELSE IF current(tokens, p2).type # "COLON" THEN Throw(p2)
       ELSE IF current(tokens, p2 + 1).type \notin {"STRING", "NUMBER", "BOOL"} THEN Throw(p2 + 1)
       ELSE LET property == IF hasDot THEN current(tokens, pos + 2).value ELSE Null
                v == parseValue(tokens, p2 + 1)
            IN Res(ClassNode(className, property, v.value), v.pos)

\* the class form, entered after the leading ':' was consumed (cursor at pos)
parseClassQuery(tokens, pos) ==
  IF current(tokens, pos).type # "STRING" THEN Throw(pos)
  ELSE
    LET className == current(tokens, pos).value.s
        hasDot == current(tokens, pos + 1).type = "DOT"
        p2 == IF hasDot THEN pos + 3 ELSE pos + 1
    IN IF hasDot /\ current(tokens, pos + 2).type # "STRING" THEN Throw(pos + 2)
       ELSE IF current(tokens, p2).type # "COLON" THEN Throw(p2)
       ELSE LET property == IF hasDot THEN current(tokens, pos + 2).value ELSE Null
                v == parseValue(tokens, p2 + 1)
            IN Res(ClassNode(className, property, v.value), v.pos)


\* a primary whose shorthand look-ahead does not accept AND after id:Class
parsePrimaryRestNoAnd(tokens, pos) ==
  IF /\ current(tokens, pos).type = "STRING"
     /\ typeAt(tokens, pos + 1) = "COLON"
     /\ typeAt(tokens, pos + 2) = "STRING"
     /\ typeAt(tokens, pos + 3) = "COLON"
  THEN LET v == parseValue(tokens, pos + 4)
       IN Res(IdClass(tokens[pos + 1].value.s, tokens[pos + 3].value.s, v.value), v.pos)
  ELSE IF /\ current(tokens, pos).type = "STRING"
          /\ typeAt(tokens, pos + 1) = "COLON"
          /\ typeAt(tokens, pos + 2) = "STRING"
          /\ typeAt(tokens, pos + 3) \in {"EOF", "OR", "RPAREN"}
  THEN Res(IdClass(tokens[pos + 1].value.s, tokens[pos + 3].value.s, Null), pos + 3)
  ELSE IF current(tokens, pos).type = "COLON"
  THEN parseClassQuery(tokens, pos + 1)
  ELSE LET v == parseValue(tokens, pos) IN Res(Bare(v.value), v.pos)

\* parsePrimary below the group and relation forms: id:Class forms, class
\* form, bare value
parsePrimaryRest(tokens, pos) ==
  IF /\ current(tokens, pos).type = "STRING"
     /\ typeAt(tokens, pos + 1) = "COLON"
     /\ typeAt(tokens, pos + 2) = "STRING"
     /\ typeAt(tokens, pos + 3) = "COLON"
  THEN LET v == parseValue(tokens, pos + 4)
       IN Res(IdClass(tokens[pos + 1].value.s, tokens[pos + 3].value.s, v.value), v.pos)
  ELSE IF /\ current(tokens, pos).type = "STRING"
          /\ typeAt(tokens, pos + 1) = "COLON"
          /\ typeAt(tokens, pos + 2) = "STRING"
          /\ typeAt(tokens, pos + 3) \in {"EOF", "AND", "OR", "RPAREN"}
  THEN Res(IdClass(tokens[pos + 1].value.s, tokens[pos + 3].value.s, Null), pos + 3)
  ELSE IF current(tokens, pos).type = "COLON"
  THEN parseClassQuery(tokens, pos + 1)
  ELSE LET v == parseValue(tokens, pos) IN Res(Bare(v.value), v.pos)

\* left = { type: 'or', left, right }, unless parsing the right operand threw
orNode(l, r) == IF r.err THEN r ELSE Res(Or(l.node, r.node), r.pos)
\* left = { type: 'and', left, right }, unless parsing the right operand threw
andNode(l, r) == IF r.err THEN r ELSE Res(And(l.node, r.node), r.pos)
\* { type: 'not', operand }, unless parsing the operand threw
notNode(p) == IF p.err THEN p ELSE Res(Not(p.node), p.pos)
\* expect(RPAREN); return expr  -- after the expression e of a group
closeGroup(tokens, e) ==
  IF e.err THEN e
  ELSE IF current(tokens, e.pos).type = "RPAREN" THEN Res(e.node, e.pos + 1)
  ELSE Throw(e.pos)

RECURSIVE parseOrExpr(_, _), parseAndExpr(_, _), parseNotExpr(_, _), parsePrimary(_, _)
RECURSIVE OrLoop(_, _), AndLoop(_, _)

parseExpression(tokens, pos) == parseOrExpr(tokens, pos)

\* while (consume(OR)) { right = parseAndExpr(); left = or(left, right) }
OrLoop(tokens, l) ==
  IF l.err \/ current(tokens, l.pos).type # "OR" THEN l
  ELSE OrLoop(tokens, orNode(l, parseAndExpr(tokens, l.pos + 1)))

parseOrExpr(tokens, pos) == OrLoop(tokens, parseAndExpr(tokens, pos))

\* while (consume(AND)) { right = parseNotExpr(); left = and(left, right) }
AndLoop(tokens, l) ==
  IF l.err \/ current(tokens, l.pos).type # "AND" THEN l
  ELSE AndLoop(tokens, andNode(l, parseNotExpr(tokens, l.pos + 1)))

parseAndExpr(tokens, pos) == AndLoop(tokens, parseNotExpr(tokens, pos))

\* a NOT that takes the whole following AND chain as its operand
parseNotExprLoose(tokens, pos) ==
  IF current(tokens, pos).type = "NOT"
  THEN notNode(parseAndExpr(tokens, pos + 1))
  ELSE parsePrimary(tokens, pos)

parseNotExpr(tokens, pos) ==
  IF current(tokens, pos).type = "NOT"
  THEN notNode(parsePrimary(tokens, pos + 1))
  ELSE parsePrimary(tokens, pos)

parsePrimary(tokens, pos) ==
  IF current(tokens, pos).type = "LPAREN"
  THEN closeGroup(tokens, parseExpression(tokens, pos + 1))
  ELSE IF current(tokens, pos).type = "LBRACKET"
  THEN IF current(tokens, pos + 1).type = "COLON"
       THEN parseRelation(tokens, pos + 2)
       ELSE parsePrimaryRest(tokens, (pos + 1) - 1)   \* pos--  (backtrack)
  ELSE parsePrimaryRest(tokens, pos)

\* a parseTokens that expects EOF after the expression
expectEOF(tokens, r) ==
  IF ~r.err /\ current(tokens, r.pos).type # "EOF" THEN Throw(r.pos) ELSE r
parseTokensToEnd(tokens) == expectEOF(tokens, parseExpression(tokens, 0))

parseTokens(tokens) == parseExpression(tokens, 0)

\* a catch block that falls back to the first token instead of the input
catchFirstToken(trimmed, tokens, r) ==
  [node |-> IF r.err THEN Bare(parseValue(tokens, 0).value) ELSE r.node,
   threw |-> r.err, pos |-> r.pos]

\* the catch block of parseQuery for the outcome r of parseTokens: the node
\* returned, whether parseTokens threw, and where its cursor was
catch(trimmed, tokens, r) ==
  [node |-> IF r.err THEN Bare(StrV(trimmed)) ELSE r.node,
   threw |-> r.err, pos |-> r.pos]

\* try { return parseTokens(tokens) } catch (e) { ... }
parseTrimmed(trimmed, tokens) == catch(trimmed, tokens, parseTokens(tokens))

\* parseQuery(query) for a query value of any JavaScript type
parseQuery(query) ==
  IF ~Truthy(query) \/ query.t # "str" THEN Empty
  ELSE LET trimmed == trim(query.s)
       IN IF trimmed = <<>> THEN Empty
          ELSE parseTrimmed(trimmed, tokenize(trimmed)).node

(***************************************************************************)
(* Entities.  An instance is { _id, _class, components, relations }; a     *)
(* has* flag tells whether the field is present.  components and          *)
(* relations are kept as lists of entries in insertion order.              *)
(***************************************************************************)
Prop(name, value) == [name |-> name, value |-> value]
Comp(name, props) == [name |-> name, props |-> props]
Rel(name, targets) == [name |-> name, targets |-> targets]
\* a relation target: a bare id string, or an object whose _to is `to`
TargetStr(id) == [isString |-> TRUE, to |-> StrV(id)]
TargetObj(to) == [isString |-> FALSE, to |-> to]

Instance(id, cls, components, relations) ==
  [hasId |-> TRUE, _id |-> id, hasClass |-> TRUE, _class |-> cls,
   hasComponents |-> TRUE, components |-> components,
   hasRelations |-> TRUE, relations |-> relations]

\* obj[key] on a list of named entries: the index of the entry, or 0
Lookup(entries, key) ==
  IF \E k \in 1..Len(entries) : entries[k].name = key
  THEN CHOOSE k \in 1..Len(entries) : entries[k].name = key
  ELSE 0

\* a serialisation that does not escape quotes and backslashes
JsonEscapeNone(s) == s

RECURSIVE JsonEscape(_)
JsonEscape(s) ==
  IF s = <<>> THEN <<>>
  ELSE (IF Head(s) \in {"\"", "\\"} THEN <<"\\", Head(s)>> ELSE <<Head(s)>>) \o JsonEscape(Tail(s))

JsonString(s) == <<"\"">> \o JsonEscape(s) \o <<"\"">>
JsonValue(v) == IF v.t = "str" THEN JsonString(v.s) ELSE String(v)

RECURSIVE JsonProps(_)
JsonProps(props) ==
  IF props = <<>> THEN <<>>
  ELSE JsonString(props[1].name) \o <<":">> \o JsonValue(props[1].value)
       \o (IF Len(props) > 1 THEN <<",">> ELSE <<>>) \o JsonProps(Tail(props))

RECURSIVE JsonComps(_)
JsonComps(comps) ==
  IF comps = <<>> THEN <<>>
  ELSE JsonString(comps[1].name) \o <<":", "{">> \o JsonProps(comps[1].props) \o <<"}">>
       \o (IF Len(comps) > 1 THEN <<",">> ELSE <<>>) \o JsonComps(Tail(comps))

\* JSON.stringify(instance.components || {})
componentsStr(instance) ==
  <<"{">> \o (IF instance.hasComponents THEN JsonComps(instance.components) ELSE <<>>) \o <<"}">>

(***************************************************************************)
(* The regular expression of matchIdClass,                                 *)
(*   new RegExp('^' + idPattern.replace(/\*/g, '.*') + '$', 'i'),          *)
(* for id patterns over the characters of an unquoted STRING token of the  *)
(* modelled alphabet: letters, digits, '-', '>' (literals), '*' and '+'.   *)
(***************************************************************************)
RECURSIVE globSource(_)
\* idPattern.replace(/\*/g, '.*')
globSource(p) ==
  IF p = <<>> THEN <<>>
  ELSE (IF Head(p) = "*" THEN <<".", "*">> ELSE <<Head(p)>>) \o globSource(Tail(p))

\* the pattern source as a list of terms [ch, any, quant]; quant "bad" marks
\* a quantifier with nothing to repeat (SyntaxError)
RECURSIVE RegexTerms(_, _)
RegexTerms(src, acc) ==
  IF src = <<>> THEN acc
  ELSE IF Head(src) \in {"*", "+"}
  THEN IF acc = <<>> \/ acc[Len(acc)].quant # "one"
       THEN Append(acc, [ch |-> Head(src), any |-> FALSE, quant |-> "bad"])
       ELSE RegexTerms(Tail(src),
              [acc EXCEPT ![Len(acc)].quant = IF Head(src) = "*" THEN "star" ELSE "plus"])
  ELSE RegexTerms(Tail(src),
         Append(acc, [ch |-> Head(src), any |-> Head(src) = ".", quant |-> "one"]))

RegexValid(terms) == \A k \in 1..Len(terms) : terms[k].quant # "bad"

TermMatches(term, c) == term.any \/ LowerChar(term.ch) = LowerChar(c)

RECURSIVE RegexMatch(_, _)
\* anchored match of the whole string, ignoring case
RegexMatch(terms, str) ==
  IF terms = <<>> THEN str = <<>>
  ELSE LET t == Head(terms)
           lo == IF t.quant = "star" THEN 0 ELSE 1
           hi == IF t.quant = "one" THEN 1 ELSE Len(str)
       IN \E n \in lo..hi :
            /\ n <= Len(str)
            /\ \A k \in 1..n : TermMatches(t, str[k])
            /\ RegexMatch(Tail(terms), SubSeq(str, n + 1, Len(str)))

(***************************************************************************)
(* Evaluator.  A call either returns a boolean or raises.                  *)
(***************************************************************************)
Ret(b) == [raise |-> FALSE, val |-> b]
Raise == [raise |-> TRUE, val |-> FALSE]

matchBare(instance, search) ==
  IF ~Truthy(search) THEN Ret(TRUE)
  ELSE LET s == toLowerCase(String(search)) IN
    IF ~instance.hasId THEN Raise                      \* undefined.toLowerCase()
    ELSE IF includes(toLowerCase(instance._id), s) THEN Ret(TRUE)
    ELSE IF ~instance.hasClass THEN Raise
    ELSE IF includes(toLowerCase(instance._class), s) THEN Ret(TRUE)
    ELSE Ret(includes(toLowerCase(componentsStr(instance)), s))

\* query.property.split('.')
RECURSIVE split(_, _)
split(s, cur) ==
  IF s = <<>> THEN <<cur>>
  ELSE IF Head(s) = "." THEN <<cur>> \o split(Tail(s), <<>>)
  ELSE split(Tail(s), Append(cur, Head(s)))

\* instance.components?.[localName]?.[prop]
componentValue(instance, localName, prop) ==
  IF ~instance.hasComponents THEN Undefined
  ELSE LET c == Lookup(instance.components, localName) IN
    IF c = 0 THEN Undefined
    ELSE LET p == Lookup(instance.components[c].props, prop) IN
      IF p = 0 THEN Undefined ELSE instance.components[c].props[p].value

\* a class comparison that never reports a difference
classDiffersNever(instance, cls) == FALSE

\* instance._class !== cls
classDiffers(instance, cls) == ~instance.hasClass \/ instance._class # cls

\* a matchClass that compares boolean query values by their string forms too
matchClassCoercing(instance, query) ==
  IF query.class # <<>> /\ classDiffers(instance, query.class) THEN Ret(FALSE)
  ELSE IF Truthy(query.property) /\ query.value.t # "null"
  THEN LET parts == split(query.property.s, <<>>)
           localName == parts[1]
           prop == IF Len(parts) >= 2 THEN parts[2] ELSE String(Undefined)
           value == componentValue(instance, localName, prop)
       IN Ret(String(value) = String(query.value))
  ELSE Ret(TRUE)

\* a matchClass that compares every query value by strict equality
matchClassStrict(instance, query) ==
  IF query.class # <<>> /\ classDiffers(instance, query.class) THEN Ret(FALSE)
  ELSE IF Truthy(query.property) /\ query.value.t # "null"
  THEN LET parts == split(query.property.s, <<>>)
           localName == parts[1]
           prop == IF Len(parts) >= 2 THEN parts[2] ELSE String(Undefined)
           value == componentValue(instance, localName, prop)
       IN Ret(value = query.value)
  ELSE Ret(TRUE)

matchClass(instance, query) ==
  IF query.class # <<>> /\ classDiffers(instance, query.class) THEN Ret(FALSE)
  ELSE IF Truthy(query.property) /\ query.value.t # "null"
  THEN LET parts == split(query.property.s, <<>>)
           localName == parts[1]
           prop == IF Len(parts) >= 2 THEN parts[2] ELSE String(Undefined)
           value == componentValue(instance, localName, prop)
       IN IF query.value.t = "bool" THEN Ret(value = query.value)
          ELSE Ret(String(value) = String(query.value))
  ELSE Ret(TRUE)

\* the id test of matchIdClass: "pass", "fail" or "raise"
matchId(instance, idPattern) ==
  IF idPattern = <<>> THEN "pass"
  ELSE IF idPattern \in {<<"*">>, <<"*", "*">>} THEN "pass"
  ELSE IF \E k \in 1..Len(idPattern) : idPattern[k] = "*"
  THEN LET regex == RegexTerms(globSource(idPattern), <<>>)
           subject == IF instance.hasId THEN instance._id ELSE String(Undefined)
       IN IF ~RegexValid(regex) THEN "raise"           \* SyntaxError
          ELSE IF RegexMatch(regex, subject) THEN "pass" ELSE "fail"
  ELSE IF ~instance.hasId THEN "raise"                 \* undefined.toLowerCase()
  ELSE IF toLowerCase(instance._id) = toLowerCase(idPattern) THEN "pass" ELSE "fail"

matchIdClass(instance, query) ==
  LET idr == matchId(instance, query.id) IN
  IF idr = "raise" THEN Raise
  ELSE IF idr = "fail" THEN Ret(FALSE)
  ELSE IF query.class # <<>> /\ classDiffers(instance, query.class) THEN Ret(FALSE)
  ELSE IF query.value.t \notin {"null", "undefined"}
          /\ ~includes(toLowerCase(componentsStr(instance)), toLowerCase(String(query.value)))
  THEN Ret(FALSE)
  ELSE Ret(TRUE)

\* a matchRelation that accepts any target whatever value is asked for
matchRelationAnyTarget(instance, query) ==
  LET r == IF instance.hasRelations THEN Lookup(instance.relations, query.relation) ELSE 0 IN
  IF r = 0 THEN Ret(FALSE)
  ELSE Ret(Len(instance.relations[r].targets) > 0)

matchRelation(instance, query) ==
  LET r == IF instance.hasRelations THEN Lookup(instance.relations, query.relation) ELSE 0 IN
  IF r = 0 THEN Ret(FALSE)
  ELSE LET relations == instance.relations[r].targets IN
    IF query.value.t = "null" THEN Ret(Len(relations) > 0)
    ELSE Ret(\E k \in 1..Len(relations) : relations[k].to = query.value)

\* l && r,  l || r,  !o  on evaluation outcomes (r is not evaluated when l decides)
andThen(l, r) == IF l.raise \/ ~l.val THEN l ELSE r
orElse(l, r) == IF l.raise \/ l.val THEN l ELSE r
negate(o) == IF o.raise THEN o ELSE Ret(~o.val)

RECURSIVE matchInstanceNotDropped(_, _)
\* an evaluator whose `not` case returns the operand's value unnegated
matchInstanceNotDropped(instance, ast) ==
  CASE ast.type = "empty" -> Ret(TRUE)
    [] ast.type = "bare" -> matchBare(instance, ast.value)
    [] ast.type = "class" -> matchClass(instance, ast)
    [] ast.type = "idclass" -> matchIdClass(instance, ast)
    [] ast.type = "relation" -> matchRelation(instance, ast)
    [] ast.type = "and" ->
         andThen(matchInstanceNotDropped(instance, ast.left),
                 matchInstanceNotDropped(instance, ast.right))
    [] ast.type = "or" ->
         orElse(matchInstanceNotDropped(instance, ast.left),
                matchInstanceNotDropped(instance, ast.right))
    [] ast.type = "not" -> matchInstanceNotDropped(instance, ast.operand)
    [] OTHER -> Ret(TRUE)

RECURSIVE matchInstance(_, _)
matchInstance(instance, ast) ==
  CASE ast.type = "empty" -> Ret(TRUE)
    [] ast.type = "bare" -> matchBare(instance, ast.value)
    [] ast.type = "class" -> matchClass(instance, ast)
    [] ast.type = "idclass" -> matchIdClass(instance, ast)
    [] ast.type = "relation" -> matchRelation(instance, ast)
    [] ast.type = "and" ->
         andThen(matchInstance(instance, ast.left), matchInstance(instance, ast.right))
    [] ast.type = "or" ->
         orElse(matchInstance(instance, ast.left), matchInstance(instance, ast.right))
    [] ast.type = "not" -> negate(matchInstance(instance, ast.operand))
    [] OTHER -> Ret(TRUE)

\* the callback's outcome m for the first element, then the outcome of the rest
filterStep(inst, m, rest) ==
  IF m.raise THEN [raise |-> TRUE, list |-> <<>>]
  ELSE IF rest.raise THEN rest
  ELSE [raise |-> FALSE, list |-> (IF m.val THEN <<inst>> ELSE <<>>) \o rest.list]

\* instances.filter(inst => matchInstance(inst, ast)): the kept elements, or
\* the exception of the first element whose evaluation raises
RECURSIVE filter(_, _)
filter(instances, ast) ==
  IF instances = <<>> THEN [raise |-> FALSE, list |-> <<>>]
  ELSE filterStep(Head(instances), matchInstance(Head(instances), ast),
                  filter(Tail(instances), ast))

\* an applyFilter that treats the empty node as matching nothing
applyFilterEmptyMatchesNone(instances, ast) ==
  IF ast.type = "empty" THEN [raise |-> FALSE, list |-> <<>>]
  ELSE filter(instances, ast)

applyFilter(instances, ast) ==
  IF ast.type = "empty" THEN [raise |-> FALSE, list |-> instances]
  ELSE filter(instances, ast)

(***************************************************************************)
(* Query history (createQueryHistory).  The history is a list of strings;  *)
(* the localStorage item is absent or holds a text.                        *)
(***************************************************************************)
Absent == [present |-> FALSE, text |-> <<>>]
Item(text) == [present |-> TRUE, text |-> text]

RECURSIVE JsonStrings(_)
JsonStrings(list) ==
  IF list = <<>> THEN <<>>
  ELSE JsonString(Head(list)) \o (IF Len(list) > 1 THEN <<",">> ELSE <<>>)
       \o JsonStrings(Tail(list))

\* JSON.stringify(history) for a list of strings
stringify(list) == <<"[">> \o JsonStrings(list) \o <<"]">>

\* the string literal of a JSON text starting after its opening quote at
\* index pos: its value and the index after the closing quote, or a failure
RECURSIVE JsonReadString(_, _, _)
JsonReadString(text, pos, cur) ==
  IF pos > Len(text) THEN [ok |-> FALSE, value |-> cur, pos |-> pos]
  ELSE IF text[pos] = "\"" THEN [ok |-> TRUE, value |-> cur, pos |-> pos + 1]
  ELSE IF text[pos] = "\\"
  THEN IF pos + 1 <= Len(text) /\ text[pos + 1] \in {"\"", "\\"}
       THEN JsonReadString(text, pos + 2, Append(cur, text[pos + 1]))
       ELSE [ok |-> FALSE, value |-> cur, pos |-> pos]
  ELSE JsonReadString(text, pos + 1, Append(cur, text[pos]))

\* the elements of a JSON array of strings from index pos on (after '[' or ',')
RECURSIVE JsonReadElements(_, _, _)
\* the continuation after the string literal r was read
JsonAfterString(text, r, acc) ==
  IF ~r.ok \/ r.pos > Len(text) THEN [ok |-> FALSE, list |-> <<>>]
  ELSE IF text[r.pos] = "]"
  THEN [ok |-> r.pos = Len(text), list |-> Append(acc, r.value)]
  ELSE IF text[r.pos] = ","
  THEN JsonReadElements(text, r.pos + 1, Append(acc, r.value))
  ELSE [ok |-> FALSE, list |-> <<>>]

JsonReadElements(text, pos, acc) ==
  IF pos > Len(text) \/ text[pos] # "\"" THEN [ok |-> FALSE, list |-> <<>>]
  ELSE JsonAfterString(text, JsonReadString(text, pos + 1, <<>>), acc)

\* JSON.parse(text) for texts that are arrays of strings; anything else
\* modelled here is a SyntaxError
JsonParse(text) ==
  IF text = <<"[", "]">> THEN [ok |-> TRUE, list |-> <<>>]
  ELSE IF Len(text) < 2 \/ text[1] # "[" THEN [ok |-> FALSE, list |-> <<>>]
  ELSE JsonReadElements(text, 2, <<>>)

\* the result of the try block of load, or [] from its catch block
loaded(parsed) == IF parsed.ok THEN parsed.list ELSE <<>>

\* load(): JSON.parse(localStorage.getItem(STORAGE_KEY) || '[]'), [] on a throw
load(item) ==
  loaded(JsonParse(IF item.present /\ item.text # <<>> THEN item.text ELSE <<"[", "]">>))

\* save(history): localStorage.setItem(...) inside try/catch; ok tells whether
\* setItem succeeded (it throws when the quota is exceeded or storage is denied)
save(item, list, ok) == IF ok THEN Item(stringify(list)) ELSE item

\* the configured maximum number of history entries (default 20)
maxSize == 2

\* slice(0, end) for 0 <= end
slice0(list, end) == SubSeq(list, 1, Min(end, Len(list)))

\* an add that does not remove the existing identical entry
addKeepsDuplicates(list, query) ==
  IF ~Truthy(query) \/ query.t # "str" THEN [history |-> list, save |-> FALSE]
  ELSE IF trim(query.s) = <<>> THEN [history |-> list, save |-> FALSE]
  ELSE [history |-> slice0(<<trim(query.s)>> \o list, maxSize), save |-> TRUE]

\* an add that never truncates
addUnbounded(list, query) ==
  IF ~Truthy(query) \/ query.t # "str" THEN [history |-> list, save |-> FALSE]
  ELSE IF trim(query.s) = <<>> THEN [history |-> list, save |-> FALSE]
  ELSE [history |-> <<trim(query.s)>> \o SelectSeq(list, LAMBDA h : h # trim(query.s)),
        save |-> TRUE]

\* an add that stores the query as given
addUntrimmed(list, query) ==
  IF ~Truthy(query) \/ query.t # "str" THEN [history |-> list, save |-> FALSE]
  ELSE IF trim(query.s) = <<>> THEN [history |-> list, save |-> FALSE]
  ELSE LET unshifted == <<query.s>> \o SelectSeq(list, LAMBDA h : h # query.s)
       IN [history |-> IF Len(unshifted) > maxSize THEN slice0(unshifted, maxSize)
                       ELSE unshifted,
           save |-> TRUE]

\* add(query) on this.history = list: the new this.history, and whether save
\* is called with it
add(list, query) ==
  IF ~Truthy(query) \/ query.t # "str" THEN [history |-> list, save |-> FALSE]
  ELSE IF trim(query.s) = <<>> THEN [history |-> list, save |-> FALSE]
  ELSE LET trimmed == trim(query.s)
           unshifted == <<trimmed>> \o SelectSeq(list, LAMBDA h : h # trimmed)
       IN [history |-> IF Len(unshifted) > maxSize THEN slice0(unshifted, maxSize)
                       ELSE unshifted,
           save |-> TRUE]

\* a call of the history object: its operation and argument
Call(op, arg) == [op |-> op, arg |-> arg]
NoCall == Call("none", Null)

(***************************************************************************)
(* Inputs: query strings and entity lists                                  *)
(***************************************************************************)
\* the lexemes generated queries are concatenated from
Pieces == {<<" ">>, <<"a">>, <<"1">>, <<"A","N","D">>, <<"O","R">>, <<"N","O","T">>,
           <<"(">>, <<")">>, <<":">>, <<".">>, <<"[">>, <<"]">>, <<"-",">",":">>,
           <<"-">>, <<"*">>}

RECURSIVE PieceStrings(_)
PieceStrings(n) ==
  IF n = 0 THEN {<<>>}
  ELSE LET prev == PieceStrings(n - 1)
       IN prev \cup {s \o p : s \in prev, p \in Pieces}

\* the words generated boolean queries are joined from, with single spaces
Words == {<<"a">>, <<"p">>, <<"N","O","T">>, <<"A","N","D">>, <<"O","R">>, <<"(">>, <<")">>}

RECURSIVE WordStrings(_)
WordStrings(n) ==
  IF n <= 1 THEN Words
  ELSE LET prev == WordStrings(n - 1)
       IN prev \cup {s \o <<" ">> \o w : s \in prev, w \in Words}

\* a OR b AND c
Q_OrAnd == <<"a"," ","O","R"," ","b"," ","A","N","D"," ","c">>
\* NOT a AND b
Q_NotAnd == <<"N","O","T"," ","a"," ","A","N","D"," ","b">>
\* (a OR b) AND c
Q_GroupAnd == <<"(","a"," ","O","R"," ","b",")"," ","A","N","D"," ","c">>
\* a AND b AND c
Q_AndAnd == <<"a"," ","A","N","D"," ","b"," ","A","N","D"," ","c">>
\* a OR b OR c
Q_OrOr == <<"a"," ","O","R"," ","b"," ","O","R"," ","c">>
\* NOT (NOT a)
Q_NotNot == <<"N","O","T"," ","(","N","O","T"," ","a",")">>
\* :Person.identity.active: true
Q_Property == <<":","P","e","r","s","o","n",".","i","d","e","n","t","i","t","y",".","a","c","t","i","v","e",":"," ","t","r","u","e">>
\* jdoe::
Q_IdLookup == <<"j","d","o","e",":",":">>
\* a*+:a
Q_GlobPlus == <<"a","*","+",":","a">>
\* jd*:Person
Q_Glob == <<"j","d","*",":","P","e","r","s","o","n">>
\* -[:MEMBER_OF]->: team-zulu
Q_Relation == <<"-","[",":","M","E","M","B","E","R","_","O","F","]","-",">",":"," ","t","e","a","m","-","z","u","l","u">>

\* -[:
Q_OpenRelation == <<"-","[",":">>
\* Person AND NOT :Team:
Q_PersonNotTeam == <<"P","e","r","s","o","n"," ","A","N","D"," ","N","O","T"," ",":","T","e","a","m",":">>
\* :Person:
Q_ClassPerson == <<":","P","e","r","s","o","n",":">>
\* :Person."identity.active": true
Q_QuotedProperty == <<":","P","e","r","s","o","n",".","\"","i","d","e","n","t","i","t","y",".","a","c","t","i","v","e","\"",":"," ","t","r","u","e">>

ScenarioStrings == {Q_PersonNotTeam, Q_ClassPerson, Q_QuotedProperty, Q_OpenRelation, Q_OrAnd, Q_NotAnd, Q_GroupAnd, Q_AndAnd, Q_OrOr, Q_NotNot, Q_Property, Q_IdLookup, Q_GlobPlus, Q_Glob, Q_Relation}

\* queries exercising the look-ahead of parsePrimary, the keyword, boolean and
\* number branches of tokenize, and input left over after parseExpression
EdgeStrings == {
  <<"a",":","A"," ","A","N","D"," ","p">>,   \* a:A AND p
  <<"a",":","A",":"," ","A","N","D"," ","p">>,   \* a:A: AND p
  <<"a",":","A"," ","p">>,   \* a:A p
  <<"a",":","A">>,   \* a:A
  <<"(","a",":","A",")">>,   \* (a:A)
  <<"a",":","A"," ","O","R"," ","p">>,   \* a:A OR p
  <<"a",":","A",":"," ","1">>,   \* a:A: 1
  <<"a",":","A",":">>,   \* a:A:
  <<"a",":","A",".","p">>,   \* a:A.p
  <<"o","r","d","e","r">>,   \* order
  <<"n","o","t","e","s">>,   \* notes
  <<"b","a","n","d">>,   \* band
  <<"R","E","P","O","R","T","S","_","T","O">>,   \* REPORTS_TO
  <<"\"","a"," ","A","N","D"," ","b","\"">>,   \* "a AND b"
  <<"'","o","r","'">>,   \* 'or'
  <<"A","n","d","r","o","i","d">>,   \* Android
  <<"t","r","u","e","m","a","n">>,   \* trueman
  <<"f","a","l","s","e","h","o","o","d">>,   \* falsehood
  <<"t","r","u","e">>,   \* true
  <<"F","A","L","S","E">>,   \* FALSE
  <<"1","-","2">>,   \* 1-2
  <<"1",".","2",".","3">>,   \* 1.2.3
  <<"-","-">>,   \* --
  <<"-","1",".","5">>,   \* -1.5
  <<"1","2">>,   \* 12
  <<"1",".">>,   \* 1.
  <<"a"," ","b">>,   \* a b
  <<"a",")">>,   \* a)
  <<"a"," ","A","N","D">>,   \* a AND
  <<"a"," ","O","R">>,   \* a OR
  <<"N","O","T">>,   \* NOT
  <<"a"," ","-","[",":">>,   \* a -[:
  <<"p"," ","A","N","D"," ","a"," ","b">>   \* p AND a b
}

\* query values: strings, and the non-string arguments null and 42
Queries ==
  {StrV(s) : s \in PieceStrings(MaxPieces) \cup WordStrings(MaxWords) \cup ScenarioStrings
             \cup EdgeStrings}
    \cup {Null, NumV(42, 0)}


p1 == Instance(<<"p","1">>, <<"P","e","r","s","o","n">>,
        <<Comp(<<"i","d","e","n","t","i","t","y">>, <<Prop(<<"a","c","t","i","v","e">>, BoolV(TRUE)), Prop(<<"n","a","m","e">>, StrV(<<"P","a">>))>>)>>,
        <<Rel(<<"M","E","M","B","E","R","_","O","F">>, <<TargetStr(<<"t","e","a","m","-","z","u","l","u">>)>>)>>)
jdoe == Instance(<<"j","d","o","e">>, <<"P","e","r","s","o","n">>,
        <<Comp(<<"i","d","e","n","t","i","t","y">>, <<Prop(<<"a","c","t","i","v","e">>, StrV(<<"t","r","u","e">>))>>)>>,
        <<Rel(<<"M","E","M","B","E","R","_","O","F">>, <<TargetObj(StrV(<<"t","e","a","m","-","y","a","n","k","e","e">>))>>)>>)
jdoe2 == Instance(<<"j","d","o","e","2">>, <<"T","e","a","m">>,
        <<Comp(<<"i","n","f","o">>, <<Prop(<<"l","e","a","d">>, StrV(<<"j","d","o","e">>)), Prop(<<"s","i","z","e">>, NumV(1, 0))>>)>>,
        <<>>)
t1 == Instance(<<"t","1">>, <<"T","e","a","m">>, <<>>, <<Rel(<<"M","E","M","B","E","R","_","O","F">>, <<>>)>>)
a1 == Instance(<<"a">>, <<"a">>, <<Comp(<<"a">>, <<Prop(<<"b">>, NumV(1, 0))>>)>>, <<>>)
a2 == Instance(<<"a","a">>, <<"A">>, <<>>, <<>>)

\* a member of team-yankee by a bare target id, owning through object targets
p2 == Instance(<<"p","2">>, <<"P","e","r","s","o","n">>, <<>>,
        <<Rel(<<"M","E","M","B","E","R","_","O","F">>, <<TargetStr(<<"t","e","a","m","-","y","a","n","k","e","e">>)>>),
          Rel(<<"O","W","N","S">>, <<TargetObj(Undefined), TargetObj(StrV(<<"t","e","a","m","-","z","u","l","u">>))>>)>>)

\* malformed entities: one field is missing
noId == [p1 EXCEPT !.hasId = FALSE]
noClass == [a1 EXCEPT !.hasClass = FALSE]
noData == [jdoe EXCEPT !.hasComponents = FALSE, !.hasRelations = FALSE]

WellFormedList == <<p1, jdoe, jdoe2, t1, a1, a2>>
ShuffledList == <<a2, jdoe2, a1, p1, a2, jdoe>>
MalformedList == <<noData, noClass, noId>>
PersonTeamList == <<p1, t1>>
EntityLists == {WellFormedList, ShuffledList, MalformedList, PersonTeamList, <<>>}
WellFormed(inst) == inst.hasId /\ inst.hasClass /\ inst.hasComponents /\ inst.hasRelations

(***************************************************************************)
(* State machine: one call parseQuery(query) followed by one call          *)
(* applyFilter(instances, ast).                                            *)
(***************************************************************************)
VARIABLES
  query,      \* the argument of parseQuery
  pc,         \* "start", "lex", "parse", "parsed", "done"
  trimmed,    \* query.trim()
  i,          \* scan position of tokenize
  tokens,     \* tokens pushed so far
  threw,      \* whether parseTokens threw
  cursor,     \* pos when parseTokens returned or threw
  ast,        \* the node parseQuery returned
  instances,  \* the list given to applyFilter
  result,     \* what applyFilter returned, or that it raised
  history,    \* this.history of the query history object
  stored,     \* the localStorage item gdedit-query-history
  call,       \* the last call made on the history object, with its argument
  before,     \* this.history as it was when that call was made
  storedBefore, \* the localStorage item as it was when that call was made
  saved,      \* whether that call called save
  timers,     \* the ids of the timeouts that are pending
  searchTimeout, \* this.searchTimeout of the search component (0 for null)
  timerId,    \* the id the next setTimeout returns
  storeQuery, \* Alpine.store('editor').searchQuery
  currentPage, \* Alpine.store('editor').currentPage
  showHistory \* this.showHistory of the search component

vars == <<query, pc, trimmed, i, tokens, threw, cursor, ast, instances, result,
          history, stored, call, before, storedBefore, saved,
          timers, searchTimeout, timerId, storeQuery, currentPage, showHistory>>
\* the variables of the history object and of the search component owning it
hvars == <<history, stored, call, before, storedBefore, saved,
           timers, searchTimeout, timerId, storeQuery, currentPage, showHistory>>

NoResult == [raise |-> FALSE, list |-> <<>>]

\* no history object and no search component has been created
NoHistory ==
  /\ history = <<>>
  /\ stored = Absent
  /\ call = NoCall
  /\ before = <<>>
  /\ storedBefore = Absent
  /\ saved = FALSE
  /\ timers = {}
  /\ searchTimeout = 0
  /\ timerId = 1
  /\ storeQuery = <<>>
  /\ currentPage = 1
  /\ showHistory = FALSE

Init ==
  /\ query \in Queries
  /\ pc = "start"
  /\ trimmed = <<>>
  /\ i = 0
  /\ tokens = <<>>
  /\ threw = FALSE
  /\ cursor = 0
  /\ ast = Empty
  /\ instances = <<>>
  /\ result = NoResult
  /\ NoHistory

\* parseQuery up to the call of tokenize: the empty-query returns
ParseQueryEntry ==
  /\ pc = "start"
  /\ IF ~Truthy(query) \/ query.t # "str" \/ trim(query.s) = <<>>
     THEN /\ ast' = Empty
          /\ pc' = "parsed"
          /\ UNCHANGED trimmed
     ELSE /\ trimmed' = trim(query.s)
          /\ pc' = "lex"
          /\ UNCHANGED ast
  /\ UNCHANGED <<query, i, tokens, threw, cursor, instances, result>>
  /\ UNCHANGED hvars

\* one iteration of the loop of tokenize
TokenizeStep ==
  /\ pc = "lex"
  /\ i < Len(trimmed)
  /\ LET st == LexStep(trimmed, i)
     IN /\ i' = st.i
        /\ tokens' = tokens \o st.toks
  /\ UNCHANGED <<query, pc, trimmed, threw, cursor, ast, instances, result>>
  /\ UNCHANGED hvars

\* the loop of tokenize ends: push EOF and return
TokenizeEnd ==
  /\ pc = "lex"
  /\ ~(i < Len(trimmed))
  /\ tokens' = Append(tokens, EOFTok)
  /\ pc' = "parse"
  /\ UNCHANGED <<query, trimmed, i, threw, cursor, ast, instances, result>>
  /\ UNCHANGED hvars

\* parseTokens(tokens) inside the try/catch of parseQuery
ParseTokensStep ==
  /\ pc = "parse"
  /\ LET r == parseTrimmed(trimmed, tokens)
     IN /\ ast' = r.node
        /\ threw' = r.threw
        /\ cursor' = r.pos
  /\ pc' = "parsed"
  /\ UNCHANGED <<query, trimmed, i, tokens, instances, result>>
  /\ UNCHANGED hvars

\* applyFilter(instances, ast)
ApplyFilterStep ==
  /\ pc = "parsed"
  /\ \E insts \in EntityLists :
       /\ instances' = insts
       /\ result' = applyFilter(insts, ast)
  /\ pc' = "done"
  /\ UNCHANGED <<query, trimmed, i, tokens, threw, cursor, ast>>
  /\ UNCHANGED hvars

Next ==
  \/ ParseQueryEntry
  \/ TokenizeStep
  \/ TokenizeEnd
  \/ ParseTokensStep
  \/ ApplyFilterStep

Spec == Init /\ [][Next]_vars

(***************************************************************************)
(* State machine of the evaluator alone: applyFilter([entity], node) for   *)
(* nodes given directly and for the nodes parseQuery returns.              *)
(***************************************************************************)
EvalNodes ==
  LET person == <<"P","e","r","s","o","n">>
      memberOf == <<"M","E","M","B","E","R","_","O","F">>
      classes == {<<>>, person, <<"T","e","a","m">>, <<"a">>}
      properties == {Null, StrV(<<"i","d","e","n","t","i","t","y",".","a","c","t","i","v","e">>),
                     StrV(<<"i","n","f","o",".","s","i","z","e">>),
                     StrV(<<"i","d","e","n","t","i","t","y">>), StrV(<<"a",".","b">>)}
      values == {Null, BoolV(TRUE), BoolV(FALSE), StrV(<<"t","r","u","e">>), NumV(1, 0),
                 StrV(<<"1">>), StrV(<<"u","n","d","e","f","i","n","e","d">>)}
      ids == {<<>>, <<"*">>, <<"*","*">>, <<"j","d","*">>, <<"J","D","O","E">>,
              <<"a","*","+">>, <<"a","+","*">>, <<"*","A">>, <<"P","1">>}
      searches == {Null, StrV(<<"J","D","O","E">>), StrV(<<"p","1">>), NumV(1, 0)}
      targets == {Null, StrV(<<"t","e","a","m","-","z","u","l","u">>),
                  StrV(<<"t","e","a","m","-","y","a","n","k","e","e">>), NumV(1, 0)}
      bares == {Null, StrV(<<>>), StrV(<<"a">>), StrV(<<"P","E","R","S","O","N">>),
                StrV(<<"j","d","o","e">>), StrV(<<"f","a","l","s","e">>),
                NumV(0, 0), NumV(1, 0), BoolV(TRUE), BoolV(FALSE)}
  IN {ClassNode(c, pr, v) : c \in classes \ {<<"a">>}, pr \in properties, v \in values}
     \cup {IdClass(id, c, v) : id \in ids, c \in classes \ {<<"T","e","a","m">>}, v \in searches}
     \cup {Relation(r, v) : r \in {memberOf, <<"O","W","N","S">>, <<"N","O","N","E">>}, v \in targets}
     \cup {Bare(v) : v \in bares}
     \cup {parseQuery(StrV(q)) : q \in ScenarioStrings \cup {<<"0">>, <<"f","a","l","s","e">>}}

EvalEntities == {p1, p2, jdoe, jdoe2, t1, a1, a2, noId, noClass, noData}

\* a node is at hand; no query is being parsed
EvalInit ==
  /\ ast \in EvalNodes
  /\ query = Null
  /\ pc = "node"
  /\ trimmed = <<>>
  /\ i = 0
  /\ tokens = <<>>
  /\ threw = FALSE
  /\ cursor = 0
  /\ instances = <<>>
  /\ result = NoResult
  /\ NoHistory

\* applyFilter([entity], ast)
MatchInstanceStep ==
  /\ pc = "node"
  /\ \E entity \in EvalEntities :
       /\ instances' = <<entity>>
       /\ result' = applyFilter(<<entity>>, ast)
  /\ pc' = "matched"
  /\ UNCHANGED <<query, trimmed, i, tokens, threw, cursor, ast>>
  /\ UNCHANGED hvars

EvalSpec == EvalInit /\ [][MatchInstanceStep]_vars

(***************************************************************************)
(* State machine of the query history: createQueryHistory() followed by    *)
(* any calls of add and clear.                                             *)
(***************************************************************************)
\* arguments of add: strings with and without surrounding blanks, blank
\* strings, and the non-strings null and 42
HistoryInputs ==
  {StrV(<<"a">>), StrV(<<"b">>), StrV(<<"A">>), StrV(<<" ", "a", " ">>), StrV(<<"\"">>),
   StrV(<<" ">>), StrV(<<>>), Null, NumV(42, 0)}

\* the trimmed strings the history can hold
HistoryEntries == {<<"a">>, <<"b">>, <<"A">>, <<"\"">>}

RECURSIVE DistinctLists(_)
\* the duplicate-free lists of at most n entries
DistinctLists(n) ==
  IF n = 0 THEN {<<>>}
  ELSE LET prev == DistinctLists(n - 1)
       IN prev \cup ({Append(l, e) : l \in {x \in prev : Len(x) = n - 1},
                                    e \in HistoryEntries}
                    \cap {l \in [1..n -> HistoryEntries] :
                            \A j, k \in 1..n : j < k => l[j] # l[k]})

\* what localStorage holds when the history object is created: nothing, the
\* list an earlier session saved, or a text that does not parse
StoredItems ==
  {Absent, Item(<<"[">>)} \cup {Item(stringify(l)) : l \in DistinctLists(maxSize)}

\* createQueryHistory(): history: load(); nothing is parsed or filtered and
\* no search component exists while the history object is exercised
HistoryInit ==
  /\ query = Null
  /\ pc = "history"
  /\ trimmed = <<>>
  /\ i = 0
  /\ tokens = <<>>
  /\ threw = FALSE
  /\ cursor = 0
  /\ ast = Empty
  /\ instances = <<>>
  /\ result = NoResult
  /\ timers = {}
  /\ searchTimeout = 0
  /\ timerId = 1
  /\ storeQuery = <<>>
  /\ currentPage = 1
  /\ showHistory = FALSE
  /\ stored \in StoredItems
  /\ history = load(stored)
  /\ call = Call("new", Null)
  /\ before = <<>>
  /\ storedBefore = stored
  /\ saved = FALSE

\* queryHistory.add(q)
Add ==
  /\ pc = "history"
  /\ \E q \in HistoryInputs, ok \in BOOLEAN :
       LET r == add(history, q)
       IN /\ history' = r.history
          /\ saved' = r.save
          /\ stored' = IF r.save THEN save(stored, r.history, ok) ELSE stored
          /\ call' = Call("add", q)
  /\ before' = history
  /\ storedBefore' = stored
  /\ UNCHANGED <<query, pc, trimmed, i, tokens, threw, cursor, ast, instances, result>>
  /\ UNCHANGED <<timers, searchTimeout, timerId, storeQuery, currentPage, showHistory>>

\* queryHistory.clear()
Clear ==
  /\ pc = "history"
  /\ \E ok \in BOOLEAN : stored' = save(stored, <<>>, ok)
  /\ history' = <<>>
  /\ saved' = TRUE
  /\ call' = Call("clear", Null)
  /\ before' = history
  /\ storedBefore' = stored
  /\ UNCHANGED <<query, pc, trimmed, i, tokens, threw, cursor, ast, instances, result>>
  /\ UNCHANGED <<timers, searchTimeout, timerId, storeQuery, currentPage, showHistory>>

HistorySpec == HistoryInit /\ [][Add \/ Clear]_vars

(***************************************************************************)
(* The search component advancedSearch().  query is this.searchQuery, ast  *)
(* is this.parsedQuery (Null for null), threw tells whether parseError is  *)
(* set, and history .. saved are this.queryHistory and its storage item.   *)
(* A handler runs to completion; the $watch callback its assignment to     *)
(* searchQuery queues runs right after it, before any timer can fire, and  *)
(* is part of the handler's step.                                          *)
(***************************************************************************)
\* a watcher that arms a new timer without clearing the pending one
watchKeepsTimer(value) ==
  IF value # query.s
  THEN /\ timerId <= MaxTimers
       /\ timers' = timers \cup {timerId}
       /\ searchTimeout' = timerId
       /\ timerId' = timerId + 1
  ELSE UNCHANGED <<timers, searchTimeout, timerId>>

\* this.$watch('searchQuery', () => this.debounceSearch()) when searchQuery
\* is assigned value: the callback runs if the value changed, and
\* debounceSearch does clearTimeout(this.searchTimeout) and then
\* this.searchTimeout = setTimeout(() => this.executeSearch(), 300)
watch(value) ==
  IF value # query.s
  THEN /\ timerId <= MaxTimers
       /\ timers' = (timers \ {searchTimeout}) \cup {timerId}
       /\ searchTimeout' = timerId
       /\ timerId' = timerId + 1
  ELSE UNCHANGED <<timers, searchTimeout, timerId>>

\* executeSearch() while this.searchQuery is searchQuery; parseQuery does not
\* throw, so the catch block setting parseError is never entered
executeSearch(searchQuery) ==
  /\ storeQuery' = searchQuery.s
  /\ currentPage' = 1
  /\ ast' = IF Truthy(searchQuery) THEN parseQuery(searchQuery) ELSE Null
  /\ threw' = FALSE

\* advancedSearch(): the component's initial data; queryHistory is created
\* from what an earlier session left in storage
SearchInit ==
  /\ query = StrV(<<>>)
  /\ pc = "search"
  /\ trimmed = <<>>
  /\ i = 0
  /\ tokens = <<>>
  /\ threw = FALSE
  /\ cursor = 0
  /\ ast = Null
  /\ instances = <<>>
  /\ result = NoResult
  /\ stored \in {Absent, Item(stringify(<<<<"b">>>>))}
  /\ history = load(stored)
  /\ call = Call("new", Null)
  /\ before = <<>>
  /\ storedBefore = stored
  /\ saved = FALSE
  /\ timers = {}
  /\ searchTimeout = 0
  /\ timerId = 1
  /\ storeQuery = <<>>
  /\ currentPage = 1
  /\ showHistory = FALSE

\* the user edits the bound input: searchQuery is assigned the new text
EditQuery ==
  /\ pc = "search"
  /\ \E value \in {<<>>, <<"a">>, <<"b">>, <<" ", "a">>, <<" ">>} \ {query.s} :
       /\ query' = StrV(value)
       /\ watch(value)
  /\ UNCHANGED <<pc, trimmed, i, tokens, threw, cursor, ast, instances, result>>
  /\ UNCHANGED <<history, stored, call, before, storedBefore, saved>>
  /\ UNCHANGED <<storeQuery, currentPage, showHistory>>

\* a pending timeout expires: its callback calls executeSearch
TimerFires ==
  /\ pc = "search"
  /\ \E id \in timers : timers' = timers \ {id}
  /\ executeSearch(query)
  /\ UNCHANGED <<query, pc, trimmed, i, tokens, cursor, instances, result>>
  /\ UNCHANGED <<history, stored, call, before, storedBefore, saved>>
  /\ UNCHANGED <<searchTimeout, timerId, showHistory>>

\* submitSearch()
SubmitSearch ==
  /\ pc = "search"
  /\ IF Truthy(query)
     THEN \E ok \in BOOLEAN :
            LET r == add(history, query)
            IN /\ history' = r.history
               /\ saved' = r.save
               /\ stored' = IF r.save THEN save(stored, r.history, ok) ELSE stored
               /\ call' = Call("add", query)
               /\ before' = history
               /\ storedBefore' = stored
     ELSE UNCHANGED <<history, stored, call, before, storedBefore, saved>>
  /\ executeSearch(query)
  /\ showHistory' = FALSE
  /\ UNCHANGED <<query, pc, trimmed, i, tokens, cursor, instances, result>>
  /\ UNCHANGED <<timers, searchTimeout, timerId>>

\* a selectFromHistory that also records the selected entry as a submission
SelectFromHistoryRecords ==
  /\ pc = "search"
  /\ \E k \in 1..Len(history) :
       /\ query' = StrV(history[k])
       /\ showHistory' = FALSE
       /\ executeSearch(StrV(history[k]))
       /\ watch(history[k])
       /\ history' = add(history, StrV(history[k])).history
  /\ UNCHANGED <<pc, trimmed, i, tokens, cursor, instances, result>>
  /\ UNCHANGED <<stored, call, before, storedBefore, saved>>

\* selectFromHistory(query) for an entry of the history list shown
SelectFromHistory ==
  /\ pc = "search"
  /\ \E k \in 1..Len(history) :
       /\ query' = StrV(history[k])
       /\ showHistory' = FALSE
       /\ executeSearch(StrV(history[k]))
       /\ watch(history[k])
  /\ UNCHANGED <<pc, trimmed, i, tokens, cursor, instances, result>>
  /\ UNCHANGED <<history, stored, call, before, storedBefore, saved>>

\* clearHistory()
ClearHistory ==
  /\ pc = "search"
  /\ \E ok \in BOOLEAN : stored' = save(stored, <<>>, ok)
  /\ history' = <<>>
  /\ saved' = TRUE
  /\ call' = Call("clear", Null)
  /\ before' = history
  /\ storedBefore' = stored
  /\ UNCHANGED <<query, pc, trimmed, i, tokens, threw, cursor, ast, instances, result>>
  /\ UNCHANGED <<timers, searchTimeout, timerId, storeQuery, currentPage, showHistory>>

\* clearSearch()
ClearSearch ==
  /\ pc = "search"
  /\ query' = StrV(<<>>)
  /\ storeQuery' = <<>>
  /\ currentPage' = 1
  /\ watch(<<>>)
  /\ UNCHANGED <<pc, trimmed, i, tokens, threw, cursor, ast, instances, result>>
  /\ UNCHANGED <<history, stored, call, before, storedBefore, saved>>
  /\ UNCHANGED showHistory

\* the pagination component moves to another page of the results
GoToPage ==
  /\ pc = "search"
  /\ \E page \in 1..MaxPage : currentPage' = page
  /\ UNCHANGED <<query, pc, trimmed, i, tokens, threw, cursor, ast, instances, result>>
  /\ UNCHANGED <<history, stored, call, before, storedBefore, saved>>
  /\ UNCHANGED <<timers, searchTimeout, timerId, storeQuery, showHistory>>

\* The event loop runs the callback of a timeout that stays pending: a step
\* that takes an id out of timers without arming another is a TimerFires
\* step, and it is possible exactly when a timer is pending.
SearchSpec ==
  /\ SearchInit
  /\ [][EditQuery \/ TimerFires \/ SubmitSearch \/ SelectFromHistory \/ ClearHistory
          \/ ClearSearch \/ GoToPage]_vars
  /\ WF_timers(\E id \in timers : timers' = timers \ {id})

(***************************************************************************)
(* Properties                                                              *)
(***************************************************************************)
Entities == {p1, jdoe, jdoe2, t1, a1, a2, noId, noClass, noData}
Parsed == pc \in {"parsed", "done"}
BlankQuery == ~Truthy(query) \/ query.t # "str" \/ trim(query.s) = <<>>
bare(x) == Bare(StrV(x))
Matches(e, node) == LET m == matchInstance(e, node) IN ~m.raise /\ m.val
TokenTypes(toks) == [k \in 1..Len(toks) |-> toks[k].type]

\* C1: parseQuery terminates with a non-null AST node for every input and
\* never raises: each iteration of the lexer loop moves the scan position
\* strictly forward (and at most one past the end), every parse function
\* returns its cursor at or after the position it was called at and inside
\* the token list, and what parseQuery returns is a node of a known type.
ParseQueryTotal ==
  /\ (pc = "lex" /\ i < Len(trimmed)) =>
       LET st == LexStep(trimmed, i) IN st.i > i /\ st.i <= Len(trimmed) + 1
  /\ (pc = "parse") =>
       \A p \in 0..(Len(tokens) - 1) :
         /\ parsePrimary(tokens, p).pos \in p..Len(tokens)
         /\ parseExpression(tokens, p).pos \in p..Len(tokens)
  /\ Parsed => ast.type \in NodeTypes /\ cursor \in 0..Len(tokens)
  /\ (pc = "parsed" /\ ~BlankQuery) => ast = parseQuery(query)

\* parseQuery has returned a node after the lexer skipped the dash of a
\* relation opener and the parser threw on the unfinished relation form
ParseQueryTotalWitness ==
  /\ pc = "parsed"
  /\ threw
  /\ trimmed[1] = "-"
  /\ tokens[1].type = "LBRACKET"
  /\ i = Len(trimmed)
  /\ ast = bare(trimmed)

\* C2: whenever parseTokens throws (unterminated group, relation form without
\* name, ']' or '->:', class form without class name, property name or
\* closing colon), parseQuery returns exactly bare(trimmed input), and each
\* of these malformed forms does throw.
ParseFailureFallsBack ==
  pc = "parsed" /\ ~BlankQuery =>
    LET ty == TokenTypes(tokens) IN
    /\ threw => ast = bare(trim(query.s))
    /\ (ty[1] = "LPAREN" /\ ty[Len(ty) - 1] # "RPAREN"
          /\ \A k \in 2..Len(ty) : ty[k] \notin {"LPAREN", "RPAREN"}) => threw
    /\ (ty[1] = "LBRACKET" /\ Len(ty) >= 2 /\ ty[2] = "COLON"
          /\ (Len(ty) < 5 \/ <<ty[3], ty[4], ty[5]>> # <<"STRING", "RBRACKET", "RELATION_ARROW">>))
          => threw
    /\ (ty[1] = "COLON" /\ ty[2] # "STRING") => threw
    /\ (ty[1] = "COLON" /\ ty[2] = "STRING" /\ ty[3] \notin {"DOT", "COLON"}) => threw
    /\ (ty[1] = "COLON" /\ ty[2] = "STRING" /\ ty[3] = "DOT"
          /\ (ty[4] # "STRING" \/ ty[5] # "COLON")) => threw

\* an unterminated group made parseTokens throw after a sub-expression was built
ParseFailureWitness ==
  /\ pc = "parsed"
  /\ threw
  /\ tokens[1].type = "LPAREN"
  /\ cursor > 1
  /\ ast = bare(trimmed)

\* C3: for every entity list (here: of well-formed entities) and AST,
\* applyFilter returns the subsequence of the input made of exactly the
\* entities the AST matches, in input order.
FilterIsStableSubsequence ==
  (pc = "done" /\ \A k \in 1..Len(instances) : WellFormed(instances[k])) =>
    /\ ~result.raise
    /\ result.list = SelectSeq(instances, LAMBDA e : Matches(e, ast))

\* Whenever applyFilter does return a list, it is the subsequence of the
\* matching entities in input order.
FilterIsStableWhenItReturns ==
  (pc = "done" /\ ~result.raise) =>
    result.list = SelectSeq(instances, LAMBDA e : Matches(e, ast))

\* C4: an empty, whitespace-only, null or non-string query parses to the
\* empty node and applyFilter with it returns the entity list unchanged.
EmptyQueryIsIdentity ==
  (Parsed /\ BlankQuery) =>
    /\ ast = Empty
    /\ (pc = "done" => result = [raise |-> FALSE, list |-> instances])

\* a whitespace-only query was applied to a non-empty list
EmptyQueryWitness ==
  /\ pc = "done"
  /\ query = StrV(<<" ", " ">>)
  /\ instances = ShuffledList
  /\ result.list = ShuffledList

\* the value of the JavaScript expressions  l && r,  l || r,  !o
JsAnd(l, r) == IF l.raise THEN Raise ELSE IF ~l.val THEN Ret(FALSE) ELSE r
JsOr(l, r) == IF l.raise THEN Raise ELSE IF l.val THEN Ret(TRUE) ELSE r
JsNot(o) == IF o.raise THEN Raise ELSE Ret(~o.val)

\* C5: the evaluator is compositional: on every entity an and/or/not node
\* evaluates to the conjunction/disjunction/negation of what its children
\* evaluate to, and not(not(a)) evaluates as a.
BooleanCombinators ==
  pc = "parsed" =>
    \A e \in Entities :
      /\ ast.type = "and" =>
           matchInstance(e, ast) = JsAnd(matchInstance(e, ast.left), matchInstance(e, ast.right))
      /\ ast.type = "or" =>
           matchInstance(e, ast) = JsOr(matchInstance(e, ast.left), matchInstance(e, ast.right))
      /\ ast.type = "not" =>
           matchInstance(e, ast) = JsNot(matchInstance(e, ast.operand))
      /\ (ast.type = "not" /\ ast.operand.type = "not") =>
           matchInstance(e, ast) = matchInstance(e, ast.operand.operand)

\* a double negation was parsed whose operand matches some entities and not others
BooleanCombinatorsWitness ==
  /\ pc = "parsed"
  /\ ast.type = "not"
  /\ ast.operand.type = "not"
  /\ \E e1, e2 \in Entities : Matches(e1, ast) /\ ~Matches(e2, ast.operand.operand)

\* C6: `:Person.identity.active: true` parses to a class filter on class
\* Person, property identity.active and value true, and applyFilter keeps p1.
PropertyFilterScenario ==
  (pc = "done" /\ query = StrV(Q_Property) /\ instances = WellFormedList) =>
    /\ ast.type = "class"
    /\ ast.class = <<"P","e","r","s","o","n">>
    /\ ast.property = StrV(<<"i","d","e","n","t","i","t","y",".","a","c","t","i","v","e">>)
    /\ ast.value = BoolV(TRUE)
    /\ \E k \in 1..Len(result.list) : result.list[k] = p1

\* C7: `jdoe::` returns exactly the entities whose id is jdoe.
IdLookupScenario ==
  (pc = "done" /\ query = StrV(Q_IdLookup) /\ instances \in {WellFormedList, ShuffledList}) =>
    /\ ~result.raise
    /\ result.list = SelectSeq(instances, LAMBDA e : e._id = <<"j","d","o","e">>)

\* C8: on well-formed entities the evaluation of any AST parseQuery returns
\* never raises.
EvaluatorTotalOnWellFormed ==
  (pc = "done" /\ \A k \in 1..Len(instances) : WellFormed(instances[k])) => ~result.raise

\* C9: evaluating any node against an entity lacking its id, class,
\* components or relations never raises.
EvaluatorTotalOnMalformed ==
  (pc = "done" /\ \E k \in 1..Len(instances) : ~WellFormed(instances[k])) => ~result.raise

RECURSIVE GrammarShaped(_)
\* the shape of a tree built without parentheses: and-chains and or-chains
\* lean left, an `and` has no `or` child, a `not` has an atom as operand
GrammarShaped(node) ==
  CASE node.type = "or" ->
         /\ node.right.type # "or"
         /\ GrammarShaped(node.left) /\ GrammarShaped(node.right)
    [] node.type = "and" ->
         /\ node.left.type # "or"
         /\ node.right.type \notin {"and", "or"}
         /\ GrammarShaped(node.left) /\ GrammarShaped(node.right)
    [] node.type = "not" -> node.operand.type \notin {"and", "or", "not"}
    [] OTHER -> TRUE

\* C10: OR binds loosest, AND tighter, NOT tightest, parentheses override,
\* and chains of one operator are left-leaning.
PrecedenceAndAssociativity ==
  pc = "parsed" =>
    /\ query = StrV(Q_OrAnd) => ast = Or(bare(<<"a">>), And(bare(<<"b">>), bare(<<"c">>)))
    /\ query = StrV(Q_NotAnd) => ast = And(Not(bare(<<"a">>)), bare(<<"b">>))
    /\ query = StrV(Q_GroupAnd) => ast = And(Or(bare(<<"a">>), bare(<<"b">>)), bare(<<"c">>))
    /\ query = StrV(Q_AndAnd) => ast = And(And(bare(<<"a">>), bare(<<"b">>)), bare(<<"c">>))
    /\ query = StrV(Q_OrOr) => ast = Or(Or(bare(<<"a">>), bare(<<"b">>)), bare(<<"c">>))
    /\ (\A k \in 1..Len(tokens) : tokens[k].type # "LPAREN") => GrammarShaped(ast)

\* a parenthesized OR was parsed as the left operand of an AND
PrecedenceWitness ==
  /\ pc = "parsed"
  /\ query = StrV(Q_GroupAnd)
  /\ ast.type = "and"
  /\ ast.left.type = "or"

\* C11: parseQuery("Person AND NOT :Team:") returns
\* and(bare("Person"), not(class("Team"))), the class node having neither
\* property nor value.
PersonAndNotTeam ==
  (pc = "parsed" /\ query = StrV(Q_PersonNotTeam)) =>
    ast = And(bare(<<"P","e","r","s","o","n">>),
              Not(ClassNode(<<"T","e","a","m">>, Null, Null)))

\* `Person AND NOT :Team:` was parsed without a throw, up to the EOF token,
\* into a conjunction whose right operand negates a class node
PersonAndNotTeamWitness ==
  /\ pc = "parsed"
  /\ query = StrV(Q_PersonNotTeam)
  /\ ~threw
  /\ cursor = Len(tokens) - 1
  /\ ast.type = "and"
  /\ ast.right.type = "not"
  /\ ast.right.operand.type = "class"

\* C12: for a class name C that lexes as one STRING token, `:C:` parses to
\* the class node of C without property and value, and applyFilter returns
\* exactly the entities whose class equals C, in input order; over p1
\* (Person) and t1 (Team), `:Person:` returns only p1.
ClassFilterSelectsClass ==
  pc = "done" =>
    /\ (/\ TokenTypes(tokens) = <<"COLON", "STRING", "COLON", "EOF">>
        /\ trimmed = <<":">> \o tokens[2].value.s \o <<":">>) =>
         /\ ast = ClassNode(tokens[2].value.s, Null, Null)
         /\ ~result.raise
         /\ result.list =
              SelectSeq(instances, LAMBDA e : e.hasClass /\ e._class = tokens[2].value.s)
    /\ (query = StrV(Q_ClassPerson) /\ instances = PersonTeamList) =>
         result = [raise |-> FALSE, list |-> <<p1>>]

\* `:Person:` was applied to the list of p1 and t1 and kept p1 alone
ClassFilterWitness ==
  /\ pc = "done"
  /\ query = StrV(Q_ClassPerson)
  /\ ast.type = "class"
  /\ instances = PersonTeamList
  /\ result.list = <<p1>>

\* the outcome of applyFilter([e], node) when the node matches e / does not
Kept(e) == [raise |-> FALSE, list |-> <<e>>]
Dropped == [raise |-> FALSE, list |-> <<>>]
Outcome(e, matches) == IF matches THEN Kept(e) ELSE Dropped

ZuluNode ==
  Relation(<<"M","E","M","B","E","R","_","O","F">>, StrV(<<"t","e","a","m","-","z","u","l","u">>))

\* C13: a relation filter for R matches an entity iff relations[R] is
\* present and, with a value V, some target (a bare id, or the id an object
\* target carries) is strictly equal to V, or, without a value, there is at
\* least one target.  `-[:MEMBER_OF]->: team-zulu` matches p1 (member of
\* team-zulu) and not p2 (member of team-yankee).
RelationFilterMatches ==
  /\ parseQuery(StrV(Q_Relation)) = ZuluNode
  /\ (pc = "matched" /\ ast.type = "relation") =>
       LET e == instances[1]
           present == e.hasRelations
                        /\ \E k \in 1..Len(e.relations) : e.relations[k].name = ast.relation
           targets == IF present
                      THEN e.relations[CHOOSE k \in 1..Len(e.relations) :
                                         e.relations[k].name = ast.relation].targets
                      ELSE <<>>
       IN result = Outcome(e, /\ present
                              /\ IF ast.value = Null THEN Len(targets) > 0
                                 ELSE \E k \in 1..Len(targets) : targets[k].to = ast.value)
  /\ (pc = "matched" /\ ast = ZuluNode /\ instances = <<p1>>) => result = Kept(p1)
  /\ (pc = "matched" /\ ast = ZuluNode /\ instances = <<p2>>) => result = Dropped

\* a relation filter with a value kept an entity for one of two object
\* targets, the other carrying no target id
RelationFilterWitness ==
  /\ pc = "matched"
  /\ ast = Relation(<<"O","W","N","S">>, StrV(<<"t","e","a","m","-","z","u","l","u">>))
  /\ instances = <<p2>>
  /\ result = Kept(p2)

ActiveIsTrue ==
  ClassNode(<<"P","e","r","s","o","n">>,
            StrV(<<"i","d","e","n","t","i","t","y",".","a","c","t","i","v","e">>), BoolV(TRUE))

\* C14 as stated: the class filter on identity.active with the boolean
\* value true matches an entity whose identity.active is the string "true".
BooleanValueCoerces ==
  (pc = "matched" /\ ast = ActiveIsTrue /\ instances = <<jdoe>>) => result = Kept(jdoe)

\* C14, amended: the class filter on identity.active with the boolean value
\* true does not match an entity whose identity.active is the string "true"
\* (a boolean query value is compared by strict equality); it matches the
\* entity whose field is the boolean true.
BooleanValueIsStrict ==
  (pc = "matched" /\ ast = ActiveIsTrue) =>
    /\ instances = <<jdoe>> => result = Dropped
    /\ instances = <<p1>> => result = Kept(p1)

\* the filter was evaluated on the entity holding the string "true"
BooleanValueWitness ==
  /\ pc = "matched"
  /\ ast = ActiveIsTrue
  /\ ast = parseQuery(StrV(Q_QuotedProperty))
  /\ instances = <<jdoe>>
  /\ jdoe.components[1].props[1].value = StrV(<<"t","r","u","e">>)
  /\ result = Dropped

\* C15: a class node is false when its class is given and differs from the
\* entity's; otherwise, when property and value are both given, a boolean
\* value matches only the identical stored boolean and any other value
\* matches iff the string forms of stored field and value are equal;
\* otherwise the class match alone decides.
ClassNodeSemantics ==
  (pc = "matched" /\ ast.type = "class") =>
    LET e == instances[1]
        path == split(ast.property.s, <<>>)
        field == componentValue(e, path[1], IF Len(path) >= 2 THEN path[2] ELSE String(Undefined))
    IN result = Outcome(e,
         IF ast.class # <<>> /\ (~e.hasClass \/ e._class # ast.class) THEN FALSE
         ELSE IF ast.property \notin {Null, StrV(<<>>)} /\ ast.value # Null
         THEN IF ast.value \in {BoolV(TRUE), BoolV(FALSE)} THEN field = ast.value
              ELSE String(field) = String(ast.value)
         ELSE TRUE)

\* a string query value matched a stored number by its string form
ClassNodeWitness ==
  /\ pc = "matched"
  /\ ast = ClassNode(<<"T","e","a","m">>, StrV(<<"i","n","f","o",".","s","i","z","e">>), StrV(<<"1">>))
  /\ instances = <<jdoe2>>
  /\ jdoe2.components[1].props[2].value = NumV(1, 0)
  /\ result = Kept(jdoe2)

\* C16: a bare node carrying a STRING, NUMBER or BOOL value v matches a
\* (well-formed) entity iff the lower-cased string form of v is a substring
\* of the lower-cased id, the lower-cased class or the lower-cased JSON
\* serialization of the components.
BareSubstringSearch ==
  (/\ pc = "matched" /\ ast.type = "bare" /\ ast.value.t \in {"str", "num", "bool"}
   /\ WellFormed(instances[1])) =>
    LET e == instances[1]
        s == toLowerCase(String(ast.value))
    IN result = Outcome(e, \/ includes(toLowerCase(e._id), s)
                           \/ includes(toLowerCase(e._class), s)
                           \/ includes(toLowerCase(componentsStr(e)), s))

RECURSIVE GlobMatch(_, _)
\* the whole of str matches the glob, `*` standing for any run of
\* characters and every other character for itself, ignoring case
GlobMatch(glob, str) ==
  IF glob = <<>> THEN str = <<>>
  ELSE IF Head(glob) = "*"
  THEN \E n \in 0..Len(str) : GlobMatch(Tail(glob), SubSeq(str, n + 1, Len(str)))
  ELSE /\ str # <<>>
       /\ LowerChar(Head(glob)) = LowerChar(Head(str))
       /\ GlobMatch(Tail(glob), Tail(str))

\* C17: an idclass node matches a (well-formed) entity iff its id pattern
\* accepts the id (`*` and `**` accept every id, a pattern containing `*`
\* is an anchored case-insensitive glob, any other pattern must equal the id
\* ignoring case), a given class equals the entity class exactly, and a
\* given value is a case-insensitive substring of the serialized components.
IdClassResolution ==
  (pc = "matched" /\ ast.type = "idclass" /\ ast.id # <<>> /\ WellFormed(instances[1])) =>
    LET e == instances[1]
    IN result = Outcome(e,
         /\ IF \E k \in 1..Len(ast.id) : ast.id[k] = "*" THEN GlobMatch(ast.id, e._id)
            ELSE toLowerCase(ast.id) = toLowerCase(e._id)
         /\ ast.class # <<>> => e._class = ast.class
         /\ ast.value # Null =>
              includes(toLowerCase(componentsStr(e)), toLowerCase(String(ast.value))))

\* the last call was add with a string that is not blank
AddedNonBlank == call.op = "add" /\ call.arg.t = "str" /\ trim(call.arg.s) # <<>>
\* the last call was add with an empty or blank string or a non-string
AddedBlank == call.op = "add" /\ ~(call.arg.t = "str" /\ trim(call.arg.s) # <<>>)
\* the entries of the history before the call other than the one added
Others == SelectSeq(before, LAMBDA h : h # trim(call.arg.s))

AddIgnoresBlank ==
  /\ AddedBlank => history = before /\ stored = storedBefore /\ ~saved
  /\ AddedNonBlank =>
       /\ history[1] = trim(call.arg.s)
       /\ saved
       /\ stored \in {storedBefore, Item(stringify(history))}
  /\ \A k \in 1..Len(history) : history[k] = trim(history[k])

\* add was called with a blank string on a non-empty history
AddIgnoresBlankWitness ==
  /\ call = Call("add", StrV(<<" ">>))
  /\ before # <<>>
  /\ history = before
  /\ stored = storedBefore
  /\ ~saved

(***************************************************************************)
(* Claims C21..C30                                                         *)
(***************************************************************************)
\* a:A AND p   and   a:A: AND p
IdClassAnd == <<"a",":","A"," ","A","N","D"," ","p">>
IdClassColonAnd == <<"a",":","A",":"," ","A","N","D"," ","p">>
Atoms == {"STRING", "NUMBER", "BOOL"}

\* C21: at every cursor position p of a token stream where the tokens are
\* STRING COLON STRING, parsePrimary decides by the token at p + 3 alone: a
\* COLON gives idclass(id, class, value) whose value is the atom at p + 4
\* (consumed) or null (nothing more consumed); EOF, AND, OR or RPAREN gives
\* idclass(id, class, null) with the cursor at p + 3; any other token gives
\* neither idclass form, the look-ahead consumed nothing and the primary is
\* the bare first STRING alone.  `a:A AND p` and `a:A: AND p` both parse to
\* and(idclass(a, A, null), bare(p)).
IdClassLookahead ==
  /\ pc = "parse" =>
       \A p \in 0..(Len(tokens) - 3) :
         (/\ tokens[p + 1].type = "STRING"
          /\ tokens[p + 2].type = "COLON"
          /\ tokens[p + 3].type = "STRING") =>
           LET id == tokens[p + 1].value.s
               class == tokens[p + 3].value.s
               next == tokens[p + 4].type
               r == parsePrimary(tokens, p)
           IN IF next = "COLON"
              THEN IF current(tokens, p + 4).type \in Atoms
                   THEN r = Res(IdClass(id, class, tokens[p + 5].value), p + 5)
                   ELSE r = Res(IdClass(id, class, Null), p + 4)
              ELSE IF next \in {"EOF", "AND", "OR", "RPAREN"}
              THEN r = Res(IdClass(id, class, Null), p + 3)
              ELSE r = Res(Bare(StrV(id)), p + 1)
  /\ (pc = "parsed" /\ trimmed \in {IdClassAnd, IdClassColonAnd}) =>
       /\ ~threw
       /\ ast = And(IdClass(<<"a">>, <<"A">>, Null), bare(<<"p">>))

\* `a:A: AND p` was parsed: the colon form took no value and AND was applied
IdClassLookaheadWitness ==
  /\ pc = "parsed"
  /\ trimmed = IdClassColonAnd
  /\ cursor = 6
  /\ ast = And(IdClass(<<"a">>, <<"A">>, Null), bare(<<"p">>))

\* the component or the property named by a class filter is absent from e
PropertyAbsent(e, property) ==
  LET parts == split(property, <<>>)
      c == IF e.hasComponents THEN Lookup(e.components, parts[1]) ELSE 0
      prop == IF Len(parts) >= 2 THEN parts[2] ELSE String(Undefined)
  IN c = 0 \/ Lookup(e.components[c].props, prop) = 0
RelationAbsent(e, relation) ==
  ~e.hasRelations \/ Lookup(e.relations, relation) = 0

\* C22: for every query value, a class filter naming a property and a value
\* drops an entity in which that component or property is absent, a
\* relation filter drops an entity in which that relation is absent, and
\* neither evaluation raises.
MissingDataIsNonMatch ==
  pc = "matched" =>
    LET e == instances[1]
    IN /\ (/\ ast.type = "class"
           /\ Truthy(ast.property)
           /\ ast.value.t # "null"
           /\ PropertyAbsent(e, ast.property.s)) => result = Dropped
       /\ (ast.type = "relation" /\ RelationAbsent(e, ast.relation)) => result = Dropped

\* what does hold: the same, for every query value but the string "undefined"
MissingDataUnlessUndefined ==
  pc = "matched" =>
    LET e == instances[1]
    IN /\ (/\ ast.type = "class"
           /\ Truthy(ast.property)
           /\ ast.value.t # "null"
           /\ ast.value # StrV(String(Undefined))
           /\ PropertyAbsent(e, ast.property.s)) => result = Dropped
       /\ (ast.type = "relation" /\ RelationAbsent(e, ast.relation)) => result = Dropped

\* the keyword spelled, in any letter case, by the characters from an index
KeywordAt(q, at) ==
  IF toUpperCase(Slice(q, at, at + 3)) = <<"A","N","D">> THEN "AND"
  ELSE IF toUpperCase(Slice(q, at, at + 2)) = <<"O","R">> THEN "OR"
  ELSE IF toUpperCase(Slice(q, at, at + 3)) = <<"N","O","T">> THEN "NOT"
  ELSE "none"
KeywordLen(kw) == IF kw = "OR" THEN 2 ELSE 3
Keywords == {"AND", "OR", "NOT"}

\* C23: every iteration of the tokenize loop starts at a scan position; when
\* the characters there spell AND, OR or NOT in any letter case it pushes
\* exactly that keyword token and advances by its length, whatever follows;
\* otherwise the iteration pushes no keyword token, so letters inside an
\* unquoted run or inside quotes never become one.  `order` is lexed as OR
\* and STRING der, `notes` as NOT and STRING es; `band`, `<<"R","E","P","O","R","T","S","_","T","O">>_TO` and
\* the quoted "a AND b" are single STRING tokens.
GreedyKeywords ==
  /\ [][(pc = "lex" /\ i < Len(trimmed) /\ ~IsSpace(trimmed[i + 1])) =>
          LET kw == KeywordAt(trimmed, i)
          IN IF kw \in Keywords
             THEN /\ tokens' = Append(tokens, Tok(kw, Null))
                  /\ i' = i + KeywordLen(kw)
             ELSE \A k \in (Len(tokens) + 1)..Len(tokens') :
                    tokens'[k].type \notin Keywords]_vars
  /\ [](pc = "parse" =>
          /\ trimmed = <<"o","r","d","e","r">> => tokens = <<Tok("OR", Null), Tok("STRING", StrV(<<"d","e","r">>)), EOFTok>>
          /\ trimmed = <<"n","o","t","e","s">> => tokens = <<Tok("NOT", Null), Tok("STRING", StrV(<<"e","s">>)), EOFTok>>
          /\ trimmed = <<"b","a","n","d">> => tokens = <<Tok("STRING", StrV(trimmed)), EOFTok>>
          /\ trimmed = <<"R","E","P","O","R","T","S","_","T","O">> => tokens = <<Tok("STRING", StrV(trimmed)), EOFTok>>
          /\ trimmed = <<"\"","a"," ","A","N","D"," ","b","\"">> => tokens = <<Tok("STRING", StrV(<<"a"," ","A","N","D"," ","b">>)), EOFTok>>)

\* `order` was lexed: OR, then the remainder as a STRING
GreedyKeywordsWitness ==
  /\ pc = "parse"
  /\ trimmed = <<"o","r","d","e","r">>
  /\ TokenTypes(tokens) = <<"OR", "STRING", "EOF">>

BoolLiteralAt(q, at) ==
  IF toLowerCase(Slice(q, at, at + 4)) = <<"t","r","u","e">> THEN 4
  ELSE IF toLowerCase(Slice(q, at, at + 5)) = <<"f","a","l","s","e">> THEN 5
  ELSE 0

\* C24: a BOOL token is pushed for true / false (any letter case) only when
\* the literal is the whole unquoted run: an iteration of the tokenize loop
\* that starts at a run merely beginning with those letters pushes one STRING
\* token holding the whole run.  `trueman` and `falsehood` are single STRING
\* tokens, `true` and `FALSE` are BOOL tokens.
BoolLiteralIsWholeWord ==
  /\ [][(pc = "lex" /\ i < Len(trimmed) /\ BoolLiteralAt(trimmed, i) > 0) =>
          LET e == UnquotedRunEnd(trimmed, i)
          IN IF e = i + BoolLiteralAt(trimmed, i)
             THEN /\ tokens' = Append(tokens, Tok("BOOL", BoolV(BoolLiteralAt(trimmed, i) = 4)))
                  /\ i' = e
             ELSE /\ tokens' = Append(tokens, Tok("STRING", StrV(SubSeq(trimmed, i + 1, e))))
                  /\ i' = e]_vars
  /\ [](pc = "parse" =>
          /\ trimmed = <<"t","r","u","e","m","a","n">> => tokens = <<Tok("STRING", StrV(trimmed)), EOFTok>>
          /\ trimmed = <<"f","a","l","s","e","h","o","o","d">> => tokens = <<Tok("STRING", StrV(trimmed)), EOFTok>>
          /\ trimmed = <<"t","r","u","e">> => tokens = <<Tok("BOOL", BoolV(TRUE)), EOFTok>>
          /\ trimmed = <<"F","A","L","S","E">> => tokens = <<Tok("BOOL", BoolV(FALSE)), EOFTok>>)

\* what tokenize does: the literal is matched as a prefix, whatever follows
BoolLiteralIsPrefix ==
  [][(pc = "lex" /\ i < Len(trimmed) /\ BoolLiteralAt(trimmed, i) > 0) =>
       /\ tokens' = Append(tokens, Tok("BOOL", BoolV(BoolLiteralAt(trimmed, i) = 4)))
       /\ i' = i + BoolLiteralAt(trimmed, i)]_vars

\* the tokenize loop reaches its number branch at this index
NumberBranchAt(q, at) ==
  /\ q[at + 1] = "-" \/ IsDigit(q[at + 1])
  /\ Slice(q, at, at + 3) # <<"-",">",":">>
  /\ ~(q[at + 1] = "-" /\ at + 1 < Len(q) /\ q[at + 2] = "[")
\* optional leading '-', digits, optional single '.' with digits
WellFormedNumber(run) ==
  LET rest == IF run # <<>> /\ Head(run) = "-" THEN Tail(run) ELSE run
      ip == DigitRun(rest)
      after == SubSeq(rest, Len(ip) + 1, Len(rest))
  IN /\ ip # <<>>
     /\ \/ after = <<>>
        \/ /\ Head(after) = "."
           /\ Len(after) >= 2
           /\ DigitRun(Tail(after)) = Tail(after)

\* C25: an iteration of the tokenize loop that consumes a run of digits,
\* dots and dashes pushes a NUMBER token only when the run is an optional
\* '-', digits and an optional single '.' with digits, and the token holds
\* the numeric value of the whole run; for any other run it pushes a STRING.
\* `-1.5` and `12` are NUMBER tokens; `1-2`, `1.2.3` and `--` are STRING
\* tokens.
NumberIsWellFormedRun ==
  /\ [][(pc = "lex" /\ i < Len(trimmed) /\ NumberBranchAt(trimmed, i)) =>
          LET e == NumberRunEnd(trimmed, i)
              run == SubSeq(trimmed, i + 1, e)
          IN IF WellFormedNumber(run)
             THEN /\ tokens' = Append(tokens, Tok("NUMBER", parseFloat(run)))
                  /\ i' = e
             ELSE /\ Len(tokens') = Len(tokens) + 1
                  /\ tokens'[Len(tokens')].type = "STRING"]_vars
  /\ [](pc = "parse" =>
          /\ trimmed = <<"-","1",".","5">> => tokens = <<Tok("NUMBER", NumV(-15, 1)), EOFTok>>
          /\ trimmed = <<"1","2">> => tokens = <<Tok("NUMBER", NumV(12, 0)), EOFTok>>
          /\ trimmed \in {<<"1","-","2">>, <<"1",".","2",".","3">>, <<"-","-">>} =>
               tokens = <<Tok("STRING", StrV(trimmed)), EOFTok>>)

\* the last call wrote the storage item
Wrote == saved /\ stored # storedBefore

ConsumedPrefix == Append(SubSeq(tokens, 1, cursor), EOFTok)

\* C29: parseTokens returns once parseExpression does, whatever token is at
\* the cursor: when it returns, the AST is the one the consumed prefix alone
\* parses to, with the same cursor, so the tokens left over have no effect;
\* nothing is raised for them.  `a b`, `a)` and `a:` give the AST of `a`.
TrailingTokensIgnored ==
  /\ (pc = "parsed" /\ tokens # <<>> /\ ~threw) =>
       /\ cursor < Len(tokens)
       /\ parseTokens(ConsumedPrefix) = Res(ast, cursor)
  /\ (pc = "parsed" /\ trimmed \in {<<"a"," ","b">>, <<"a",")">>, <<"a",":">>}) =>
       /\ ~threw
       /\ cursor = 1
       /\ ast = bare(<<"a">>)
       /\ ast = parseQuery(StrV(<<"a">>))

\* `a b` was parsed: the cursor stopped before the second word, which is
\* neither EOF nor an operator, and the AST is the one of `a`
TrailingTokensWitness ==
  /\ pc = "parsed"
  /\ trimmed = <<"a"," ","b">>
  /\ ~threw
  /\ tokens[cursor + 1] = Tok("STRING", StrV(<<"b">>))
  /\ ast = bare(<<"a">>)

\* the token at index p starts no form of parsePrimary and is no atom
NoOperandAt(p) ==
  \/ tokens[p + 1].type \in {"EOF", "AND", "OR", "NOT", "RPAREN", "RBRACKET", "DOT",
                              "RELATION_ARROW"}
  \/ tokens[p + 1].type = "LBRACKET" /\ typeAt(tokens, p + 1) # "COLON"
AllKept == [raise |-> FALSE, list |-> instances]
\* the parser's part of C30, and the evaluation of the valueless bare node
MissingOperandParses ==
  /\ pc = "parse" =>
       \A p \in 0..(Len(tokens) - 1) :
         NoOperandAt(p) => parsePrimary(tokens, p) = Res(Bare(Null), p)
  /\ pc = "done" =>
       \A k \in 1..Len(instances) :
         /\ matchInstance(instances[k], Bare(Null)) = Ret(TRUE)
         /\ matchInstance(instances[k], bare(<<>>)) = Ret(TRUE)
  /\ (pc = "done" /\ trimmed \in {<<"a"," ","A","N","D">>, <<"p"," ","A","N","D">>}) =>
       /\ ~threw
       /\ ast = And(bare(<<trimmed[1]>>), Bare(Null))
       /\ result = applyFilter(instances, parseQuery(StrV(<<trimmed[1]>>)))
  /\ (pc = "done" /\ trimmed = <<"N","O","T">>) =>
       /\ ast = Not(Bare(Null))
       /\ result = Dropped

\* C30: where an operand is expected and the token there is no atom and
\* starts no form, parsePrimary returns bare(null) and leaves the cursor in
\* place; a bare node with a null or empty value matches every entity; so
\* `x AND` filters exactly like `x`, `x OR` matches every entity and `NOT`
\* alone matches none.
MissingOperandMatchesAll ==
  /\ MissingOperandParses
  /\ (pc = "done" /\ trimmed \in {<<"a"," ","O","R">>, <<"p"," ","O","R">>}) =>
       /\ ast = Or(bare(<<trimmed[1]>>), Bare(Null))
       /\ result = AllKept

\* what does hold: `x OR` keeps every entity of a list of well-formed ones
MissingOperandOnWellFormed ==
  /\ MissingOperandParses
  /\ (/\ pc = "done"
      /\ trimmed \in {<<"a"," ","O","R">>, <<"p"," ","O","R">>}
      /\ \A k \in 1..Len(instances) : WellFormed(instances[k])) =>
       /\ ast = Or(bare(<<trimmed[1]>>), Bare(Null))
       /\ result = AllKept

\* C27: in the search component the history list changes only on
\* submission: submitSearch with a non-empty query hands it to the history's
\* add (which puts its trimmed text in front), clearHistory empties the
\* list, and editing the query, the debounced executeSearch,
\* selectFromHistory and clearSearch leave the list, its order and the
\* stored item as they were.
HistoryChangesOnSubmitOnly ==
  [][/\ (EditQuery \/ TimerFires \/ SelectFromHistory \/ ClearSearch) =>
          UNCHANGED <<history, stored>>
     /\ SubmitSearch =>
          history' = IF query.s # <<>> THEN add(history, query).history ELSE history
     /\ ClearHistory => history' = <<>>
     /\ history' # history =>
          \/ /\ call' = Call("add", query)
             /\ query.s # <<>>
             /\ history'[1] = trim(query.s)
          \/ /\ call' = Call("clear", Null)
             /\ history' = <<>>]_vars

\* a query picked from the history was edited and submitted: the history
\* got a new first entry, and the pending debounce timer is still armed
HistoryChangesWitness ==
  /\ pc = "search"
  /\ call.op = "add"
  /\ Len(before) = 1
  /\ Len(history) = 2
  /\ history[1] = trim(query.s)
  /\ timers # {}

====
